---------------------------- MODULE Spec2Model ----------------------------
(***************************************************************************)
(* Room Session State Synchronizer of WarRoomChat (ChatProvider in         *)
(* src/src/components/WelcomePage.tsx, lines 432-1502), together with the  *)
(* part of the Storage Gateway (Supabase tables, stored procedures and     *)
(* change-event channels) and of the AI Responder that it talks to.        *)
(* The AI Responder's generateResponse and testConnection are operators    *)
(* over the outcomes of the completion request; the message input of       *)
(* ChatRoom with its mention detection (useMentions), the join handler of  *)
(* WelcomePage and the presence query get_room_participants_with_presence  *)
(* are modelled next to the provider they call.                            *)
(*                                                                         *)
(* One action is one run of the JavaScript event loop: the code from the   *)
(* resumption after an await up to the next await.  A gateway call whose   *)
(* effect on storage can be observed by others before its response comes   *)
(* back (the message insert, the message load of joinRoom) is split in the *)
(* gateway's step and the response's step; a reload of a change-event      *)
(* handler collects the values its query can read while it is in flight.   *)
(***************************************************************************)
EXTENDS Integers, Sequences, FiniteSets, TLC

(***************************************************************************)
(* Bounds of the model.                                                    *)
(***************************************************************************)
MaxSends == 2        \* sendMessage calls
MaxJoins == 2        \* joinRoom calls
MaxCreates == 1      \* createRoom calls
MaxOtherMsgs == 1    \* messages inserted by the other participant
MaxToggles == 1      \* toggleAIMute calls
MaxAuthEvents == 1   \* auth state changes that deliver a new user object
MaxTicks == 2        \* steps of the clock between presence loads

SendIds == 1..MaxSends
JoinIds == 1..MaxJoins

(***************************************************************************)
(* Identities.                                                             *)
(***************************************************************************)
Me == "userA"               \* the authenticated user of this client
Other == "userB"            \* another participant, on another client
Third == "userC"            \* the creator of room r2
AIUser == "00000000"        \* ai_user_id of insert_ai_message
ExistingRooms == {"r1", "r2"}
CreatedRooms == {"r3"}      \* ids createRoom generates
RoomIds == ExistingRooms \cup CreatedRooms

NoRoom == [id |-> "null"]                 \* null currentRoom
NoChannel == "null"                       \* null channel ref
NoTimer == 0                              \* null timer handle
NoReply == [userId |-> "null"]            \* null replyingTo
NoUser == [id |-> "null", obj |-> 0]      \* null user
Undecodable == [userId |-> "undecodable"] \* a replying_to string that is no JSON text
NoId == <<"null", 0>>                     \* no message id

\* ChatRoom after mounting: useState('') and useState(0); useMentions likewise
NoInput == [value |-> << >>, cursor |-> 0]
NoMention == [isOpen |-> FALSE, query |-> << >>, mentionStart |-> -1]

\* no participants have been loaded with their presence
NoPresence == [room |-> "null", rows |-> {}]

\* findReplyTarget has not been called
NoCall == [content |-> << >>, messages |-> << >>, called |-> FALSE, target |-> NoId]

\* the topics of the three channels of a room
Topics == {"messages", "participants", "settings"}

\* no channel and no interval is alive
NoChannels == [channels |-> [c \in Topics \X RoomIds |-> 0], intervals |-> [r \in RoomIds |-> 0]]

(***************************************************************************)
(* Text.  A string is a sequence of characters.                            *)
(***************************************************************************)
UpperCase == <<"A","B","C","D","E","F","G","H","I","J","K","L","M",
               "N","O","P","Q","R","S","T","U","V","W","X","Y","Z">>
LowerCase == <<"a","b","c","d","e","f","g","h","i","j","k","l","m",
               "n","o","p","q","r","s","t","u","v","w","x","y","z">>

ToLowerChar(c) ==
    IF \E i \in 1..Len(UpperCase) : UpperCase[i] = c
    THEN LowerCase[CHOOSE i \in 1..Len(UpperCase) : UpperCase[i] = c]
    ELSE c

\* String.prototype.toLowerCase
toLowerCase(s) == [i \in 1..Len(s) |-> ToLowerChar(s[i])]

\* String.prototype.includes
includes(s, sub) ==
    \E i \in 0..(Len(s) - Len(sub)) : SubSeq(s, i + 1, i + Len(sub)) = sub

AtAIUpper == <<"@","A","I">>
AtAILower == <<"@","a","i">>

\* content.includes('@AI') || content.toLowerCase().includes('@ai')
MentionsAI(content) ==
    includes(content, AtAIUpper) \/ includes(toLowerCase(content), AtAILower)

StrPlan == <<"w","h","a","t","'","s"," ","t","h","e"," ","p","l","a","n","?">>
StrNotSure == <<"n","o","t"," ","s","u","r","e">>
StrAICanYouHelp ==
    <<"@","A","I"," ","c","a","n"," ","y","o","u"," ","h","e","l","p","?">>
StrAiHello == <<"@","a","i"," ","h","e","l","l","o">>
StrAIReply == <<"o","k">>
StrUnavailable == <<"u","n","a","v","a","i","l","a","b","l","e">>
StrTrouble == <<"t","r","o","u","b","l","e">>
Ellipsis == <<".",".",".">>

\* what the user types into sendMessage
Contents == {StrNotSure, StrAICanYouHelp, StrAiHello}

(***************************************************************************)
(* State.                                                                  *)
(***************************************************************************)
VARIABLES
    \* ---- ChatProvider (React state and refs)
    user,                    \* useAuth().user: [id, obj]; obj is the object's identity
    currentRoom,             \* useState currentRoom
    currentRoomRef,          \* useRef currentRoomRef
    rooms,                   \* useState rooms (the ids of the listed rooms)
    isConnected,             \* useState isConnected
    isAIResponding,          \* useState isAIResponding (AIPending)
    messagesChannelRef,      \* room id of the live messages channel, or NoChannel
    participantsChannelRef,
    settingsChannelRef,
    presenceUpdateInterval,  \* room id of the live presence interval, or NoChannel
    aiResponseTimeoutRef,    \* handle of the last safeguard timeout, or NoTimer
    pendingMessagesRef,      \* Set of provisional ids
    realtimeClient,          \* the channels and intervals that are alive (supabase, window)
    \* ---- timers and asynchronous calls of the client
    aiTimers,                \* safeguard timeouts that are armed (handle = send id)
    sends,                   \* sendMessage calls and their AI turns
    joins,                   \* joinRoom calls
    creates,                 \* the createRoom calls made: the gateway's answer, the caller's
    toggles,                 \* the toggleAIMute calls made: the gateway's answer, the caller's
    authEvents,              \* number of auth state changes delivered
    roomsLoads,              \* loadRoomsFromSupabase calls in flight
    reloads,                 \* participants / settings reloads in flight
    \* ---- Storage Gateway
    dbRooms,                 \* rooms table (ids)
    dbMessages,              \* messages table, per room, in created_at order
    dbParticipants,          \* room_participants table, per room
    dbSettings,              \* room_settings: is_ai_muted and ai_muted_by, per room
    clock,                   \* now() of the gateway; also numbers the durable ids
    otherMsgs,               \* messages the other participant has inserted
    \* ---- change events in flight to this client's channels
    msgEvents,               \* INSERT payloads for the messages channel (FIFO)
    partEvents,              \* INSERT events for the participants channel
    settingsEvents,          \* events for the settings channel
    \* ---- ChatRoom (the message input) and the participants list with presence
    chatInput,               \* useState newMessage (value) and cursorPosition (cursor)
    mentionState,            \* useMentions.mentionState
    presence,                \* rows of the last get_room_participants_with_presence
    replyCall                \* the last call of findReplyTarget: arguments and result

clientVars == <<user, currentRoom, currentRoomRef, rooms, isConnected, isAIResponding,
                messagesChannelRef, participantsChannelRef, settingsChannelRef,
                presenceUpdateInterval, aiResponseTimeoutRef, pendingMessagesRef,
                realtimeClient>>
asyncVars == <<aiTimers, sends, joins, creates, toggles, authEvents, roomsLoads, reloads>>
dbVars == <<dbRooms, dbMessages, dbParticipants, dbSettings, clock, otherMsgs>>
eventVars == <<msgEvents, partEvents, settingsEvents>>
viewVars == <<chatInput, mentionState, presence, replyCall>>
vars == <<clientVars, asyncVars, dbVars, eventVars, viewVars>>

subscriptionVars == <<messagesChannelRef, participantsChannelRef, settingsChannelRef,
                      presenceUpdateInterval, realtimeClient>>

(***************************************************************************)
(* Messages.                                                               *)
(***************************************************************************)
TempId(s) == <<"temp_", s>>          \* `temp_${Date.now()}_${random}`
DurableId(n) == <<"msg", n>>         \* uuid assigned by the messages table

\* m.id.startsWith('temp_')
IsTempId(id) == id[1] = "temp_"

Message(id, roomId, userId, content, isAI, timestamp, replyingTo) ==
    [id |-> id, roomId |-> roomId, userId |-> userId, content |-> content,
     isAI |-> isAI, timestamp |-> timestamp, replyingTo |-> replyingTo]

\* the rows the messages table holds when the session starts
InitialMessages ==
    [r \in RoomIds |->
        IF r = "r1"
        THEN << Message(DurableId(1), "r1", Me, StrPlan, FALSE, 1, NoReply),
                Message(DurableId(2), "r1", Other, StrNotSure, FALSE, 2, NoReply) >>
        ELSE << >>]

\* what a call of the completions endpoint of the AI Responder does
Outcome(kind, content, isError, message) ==
    [kind |-> kind, content |-> content, isError |-> isError, message |-> message]

NoOutcome == Outcome("none", << >>, FALSE, << >>)

IdleSend == [pc |-> "idle", room |-> "null", muted |-> FALSE, content |-> << >>,
             durable |-> NoId, result |-> "none",
             probed |-> NoOutcome, completion |-> NoOutcome,  \* what the endpoint did
             mounted |-> TRUE,      \* the ChatRoom that made the call is still mounted
             history |-> << >>,     \* recentMessages of the generateResponse call in flight
             aiText |-> << >>, reply |-> NoReply,   \* arguments of the AI insertion
             target |-> NoId, seen |-> << >>]       \* the reply target and the list it was found in
IdleJoin == [pc |-> "idle", room |-> "null", participants |-> {}, muted |-> FALSE,
             mutedBy |-> "undefined",
             messages |-> << >>, result |-> "none"]

\* the provider after construction, and the tables but for the messages; replyCall is
\* left to the specification
InitSession ==
    /\ user = [id |-> Me, obj |-> 1]
    /\ currentRoom = NoRoom
    /\ currentRoomRef = NoRoom
    /\ rooms = << >>
    /\ isConnected = FALSE
    /\ isAIResponding = FALSE
    /\ messagesChannelRef = NoChannel
    /\ participantsChannelRef = NoChannel
    /\ settingsChannelRef = NoChannel
    /\ presenceUpdateInterval = NoChannel
    /\ aiResponseTimeoutRef = NoTimer
    /\ pendingMessagesRef = {}
    /\ realtimeClient = NoChannels
    /\ aiTimers = {}
    /\ sends = [s \in SendIds |-> IdleSend]
    /\ joins = [j \in JoinIds |-> IdleJoin]
    /\ creates = << >>
    /\ toggles = << >>
    /\ authEvents = 0
    /\ roomsLoads = 1            \* the mount effect has called initializeConnection
    /\ reloads = {}
    /\ dbRooms = ExistingRooms
    /\ dbParticipants = [r \in RoomIds |-> IF r = "r1" THEN {Me, Other}
                                            ELSE IF r = "r2" THEN {Third} ELSE {}]
    /\ dbSettings = [r \in RoomIds |->
                         IF r = "r2" THEN [is_ai_muted |-> TRUE, ai_muted_by |-> Third]
                         ELSE [is_ai_muted |-> FALSE, ai_muted_by |-> "null"]]
    /\ otherMsgs = 0
    /\ msgEvents = << >>
    /\ partEvents = 0
    /\ settingsEvents = 0
    /\ chatInput = NoInput
    /\ mentionState = NoMention
    /\ presence = NoPresence

Init ==
    /\ InitSession
    /\ dbMessages = InitialMessages
    /\ clock = 2
    /\ replyCall = NoCall

(***************************************************************************)
(* Storage Gateway: queries.                                               *)
(***************************************************************************)
MessageLimit == 100       \* .limit(100) of loadRoomMessages

\* .order('created_at', { ascending: true }): the rows by created_at, rows of one
\* created_at in the order of the table
OrderByCreatedAt(rows) ==
    LET n == Len(rows)
        rank == [i \in 1..n |->
                    Cardinality({k \in 1..n :
                        \/ rows[k].timestamp < rows[i].timestamp
                        \/ rows[k].timestamp = rows[i].timestamp /\ k <= i})]
    IN  [p \in 1..n |-> rows[CHOOSE i \in 1..n : rank[i] = p]]

\* .limit(n)
Limit(rows, n) == SubSeq(rows, 1, IF Len(rows) < n THEN Len(rows) ELSE n)

\* a decoding that hands on whatever the field holds
parseReplyingToRaw(replying_to) == replying_to

\* the decoding of the replying_to field: JSON.parse of a string, null from its catch;
\* null and objects as they are
parseReplyingTo(replying_to) ==
    IF replying_to = Undecodable THEN NoReply ELSE replying_to

\* loadRoomMessages: select * from messages where room_id = roomId
\*                   order by created_at asc limit 100; on error []
loadRoomMessages(rows, ok) ==
    IF ok THEN LET data == Limit(OrderByCreatedAt(rows), MessageLimit)
               IN  [i \in 1..Len(data) |->
                       [data[i] EXCEPT !.replyingTo = parseReplyingTo(@)]]
    ELSE << >>

\* loadParticipantsWithPresence: the participants of the room; on error []
loadParticipantsWithPresence(roomId, ok) ==
    IF ok THEN dbParticipants[roomId] ELSE {}

\* settings that keep the stored mute state when the load fails
RoomSettingsKept(roomId, row, ok) ==
    [roomId |-> roomId, isAIMuted |-> row.is_ai_muted, aiMutedBy |-> row.ai_muted_by]

\* what loadRoomSettings makes of the answer of get_room_settings: the row, or on error
\* the default { roomId, isAIMuted: false }, which has no aiMutedBy
RoomSettings(roomId, row, ok) ==
    IF ok THEN [roomId |-> roomId, isAIMuted |-> row.is_ai_muted \/ FALSE,
                aiMutedBy |-> row.ai_muted_by]
    ELSE [roomId |-> roomId, isAIMuted |-> FALSE, aiMutedBy |-> "undefined"]

\* loadRoomSettings: the stored settings; on error the default { isAIMuted: false }
loadRoomSettings(roomId, ok) == RoomSettings(roomId, dbSettings[roomId], ok)

RoomOrder == <<"r1", "r2", "r3">>

\* loadRoomsFromSupabase: the rooms in which the user is a participant
ParticipantRooms ==
    LET mine == SelectSeq(RoomOrder, LAMBDA r : r \in dbRooms /\ user.id \in dbParticipants[r])
    IN  mine

(***************************************************************************)
(* Subscriptions.                                                          *)
(***************************************************************************)
\* a cleanup that forgets the safeguard timeout of the AI turn
cleanupKeepingAITimeout ==
    [messages |-> NoChannel, participants |-> NoChannel, settings |-> NoChannel,
     interval |-> NoChannel, aiTimeout |-> aiResponseTimeoutRef, timers |-> aiTimers]

\* cleanupSubscriptions: the refs afterwards, and the timeouts still armed
cleanupSubscriptions ==
    [messages |-> NoChannel, participants |-> NoChannel, settings |-> NoChannel,
     interval |-> NoChannel, aiTimeout |-> NoTimer,
     timers |-> aiTimers \ {aiResponseTimeoutRef}]

\* setupRealtimeSubscriptions(roomId): cleanup, then three channels and the interval
setupRealtimeSubscriptions(roomId) ==
    [cleanupSubscriptions EXCEPT !.messages = roomId, !.participants = roomId,
                                 !.settings = roomId, !.interval = roomId]

\* supabase.removeChannel(ref.current) for the refs that are set, clearInterval likewise
RemoveChannels ==
    LET ref(topic) == IF topic = "messages" THEN messagesChannelRef
                      ELSE IF topic = "participants" THEN participantsChannelRef
                      ELSE settingsChannelRef
    IN  [channels |-> [c \in Topics \X RoomIds |->
                          IF ref(c[1]) = c[2] THEN realtimeClient.channels[c] - 1
                          ELSE realtimeClient.channels[c]],
         intervals |-> [r \in RoomIds |->
                          IF presenceUpdateInterval = r THEN realtimeClient.intervals[r] - 1
                          ELSE realtimeClient.intervals[r]]]

\* supabase.channel(`room-<topic>-${roomId}`)...subscribe() three times, and setInterval
AddChannels(client, roomId) ==
    [channels |-> [c \in Topics \X RoomIds |->
                      IF c[2] = roomId THEN client.channels[c] + 1 ELSE client.channels[c]],
     intervals |-> [r \in RoomIds |->
                      IF r = roomId THEN client.intervals[r] + 1 ELSE client.intervals[r]]]

\* the refs take the values of sub; events queued for the removed channels are dropped
SetSubscriptions(sub) ==
    /\ messagesChannelRef' = sub.messages
    /\ participantsChannelRef' = sub.participants
    /\ settingsChannelRef' = sub.settings
    /\ presenceUpdateInterval' = sub.interval
    /\ aiResponseTimeoutRef' = sub.aiTimeout
    /\ aiTimers' = sub.timers
    /\ realtimeClient' = IF sub.messages = NoChannel THEN RemoveChannels
                          ELSE AddChannels(RemoveChannels, sub.messages)
    /\ msgEvents' = << >>
    /\ partEvents' = 0
    /\ settingsEvents' = 0

\* An in-flight loadParticipantsWithPresence / loadRoomSettings of a handler.  The
\* gateway runs the query at some moment between the request and the response, so the
\* request collects every value the table holds while it is in flight and the response
\* delivers one of them.  Identical requests in flight are one element of the set.
Reload(kind, roomId) ==
    [kind |-> kind, room |-> roomId,
     participants |-> IF kind = "participants" THEN {dbParticipants[roomId]} ELSE {},
     muted |-> IF kind = "settings" THEN {dbSettings[roomId]} ELSE {}]

\* the requests in flight after room_participants of roomId has become participants
SeeParticipants(roomId, participants) ==
    {IF q.kind = "participants" /\ q.room = roomId
     THEN [q EXCEPT !.participants = @ \cup {participants}] ELSE q : q \in reloads}

\* the requests in flight after room_settings of roomId has become muted
SeeSettings(roomId, muted) ==
    {IF q.kind = "settings" /\ q.room = roomId
     THEN [q EXCEPT !.muted = @ \cup {muted}] ELSE q : q \in reloads}

(***************************************************************************)
(* joinRoom.                                                               *)
(***************************************************************************)
NextJoin(j) == joins[j].pc = "idle" /\ \A k \in JoinIds : k < j => joins[k].pc # "idle"

\* joinRoom up to the response of join_room_as_participant
JoinRoom(j, r, ok) ==
    /\ NextJoin(j)
    /\ IF user = NoUser \/ ~ok \/ r \notin dbRooms
       THEN /\ joins' = [joins EXCEPT ![j] = [@ EXCEPT !.pc = "failed", !.result = "false"]]
            /\ UNCHANGED <<dbParticipants, partEvents, reloads>>
       ELSE /\ joins' = [joins EXCEPT ![j] = [@ EXCEPT !.pc = "roomSelect", !.room = r]]
            /\ dbParticipants' = [dbParticipants EXCEPT ![r] = @ \cup {user.id}]
            /\ reloads' = SeeParticipants(r, dbParticipants[r] \cup {user.id})
            /\ partEvents' = IF user.id \notin dbParticipants[r] /\ participantsChannelRef = r
                             THEN partEvents + 1 ELSE partEvents
    /\ UNCHANGED <<clientVars, aiTimers, sends, creates, toggles, authEvents, roomsLoads,
                   dbRooms, dbMessages, dbSettings, clock, otherMsgs,
                   msgEvents, settingsEvents>>
    /\ UNCHANGED viewVars

\* a room select whose failure path tears the subscriptions down
JoinRoomSelectReleasing(j, ok) ==
    /\ joins[j].pc = "roomSelect"
    /\ IF ok /\ joins[j].room \in dbRooms
       THEN /\ joins' = [joins EXCEPT ![j] = [@ EXCEPT !.pc = "loadParticipants"]]
            /\ UNCHANGED <<subscriptionVars, aiResponseTimeoutRef, aiTimers, eventVars>>
       ELSE /\ joins' = [joins EXCEPT ![j] = [IdleJoin EXCEPT !.pc = "failed",
                                                               !.result = "false"]]
            /\ SetSubscriptions(cleanupSubscriptions)
            /\ UNCHANGED settingsEvents
    /\ UNCHANGED <<user, currentRoom, currentRoomRef, rooms, isConnected, isAIResponding,
                   pendingMessagesRef, sends, creates, toggles, authEvents, roomsLoads,
                   reloads, dbVars>>
    /\ UNCHANGED viewVars

\* the response of select * from rooms where id = roomId
JoinRoomSelect(j, ok) ==
    /\ joins[j].pc = "roomSelect"
    /\ joins' = [joins EXCEPT ![j] =
                    IF ok /\ joins[j].room \in dbRooms
                    THEN [@ EXCEPT !.pc = "loadParticipants"]
                    ELSE [IdleJoin EXCEPT !.pc = "failed", !.result = "false"]]
    /\ UNCHANGED <<clientVars, aiTimers, sends, creates, toggles, authEvents, roomsLoads,
                   reloads, dbVars, eventVars>>
    /\ UNCHANGED viewVars

JoinLoadParticipants(j, ok) ==
    /\ joins[j].pc = "loadParticipants"
    /\ joins' = [joins EXCEPT ![j] =
                    [@ EXCEPT !.pc = "loadSettings",
                              !.participants = loadParticipantsWithPresence(joins[j].room, ok)]]
    /\ UNCHANGED <<clientVars, aiTimers, sends, creates, toggles, authEvents, roomsLoads,
                   reloads, dbVars, eventVars>>
    /\ UNCHANGED viewVars

JoinLoadSettings(j, ok) ==
    /\ joins[j].pc = "loadSettings"
    /\ joins' = [joins EXCEPT ![j] =
                    [@ EXCEPT !.pc = "loadMessages",
                              !.muted = loadRoomSettings(joins[j].room, ok).isAIMuted,
                              !.mutedBy = loadRoomSettings(joins[j].room, ok).aiMutedBy]]
    /\ UNCHANGED <<clientVars, aiTimers, sends, creates, toggles, authEvents, roomsLoads,
                   reloads, dbVars, eventVars>>
    /\ UNCHANGED viewVars

\* the gateway runs the query of loadRoomMessages
JoinLoadMessages(j, ok) ==
    /\ joins[j].pc = "loadMessages"
    /\ joins' = [joins EXCEPT ![j] =
                    [@ EXCEPT !.pc = "publish",
                              !.messages = loadRoomMessages(dbMessages[joins[j].room], ok)]]
    /\ UNCHANGED <<clientVars, aiTimers, sends, creates, toggles, authEvents, roomsLoads,
                   reloads, dbVars, eventVars>>
    /\ UNCHANGED viewVars

\* setRooms of joinRoom: replace the entry of the room, or append it
PublishInRooms(list, roomId) ==
    IF \E i \in 1..Len(list) : list[i] = roomId THEN list ELSE Append(list, roomId)

\* the messages arrive: subscribe, publish the room, return true
JoinPublish(j) ==
    /\ joins[j].pc = "publish"
    /\ LET room == [id |-> joins[j].room,
                    participants |-> joins[j].participants,
                    settings |-> [roomId |-> joins[j].room, isAIMuted |-> joins[j].muted,
                                 aiMutedBy |-> joins[j].mutedBy],
                    messages |-> joins[j].messages]
       IN  /\ SetSubscriptions(setupRealtimeSubscriptions(joins[j].room))
           /\ currentRoom' = room
           /\ currentRoomRef' = room
           /\ rooms' = PublishInRooms(rooms, joins[j].room)
    /\ joins' = [joins EXCEPT ![j] = [IdleJoin EXCEPT !.pc = "done", !.result = "true"]]
    /\ UNCHANGED <<user, isConnected, isAIResponding, pendingMessagesRef,
                   sends, creates, toggles, authEvents, roomsLoads, reloads, dbVars>>
    /\ UNCHANGED viewVars

(***************************************************************************)
(* leaveRoom, createRoom.                                                  *)
(***************************************************************************)
LeaveRoom ==
    IF currentRoom = NoRoom
    THEN UNCHANGED vars
    ELSE /\ SetSubscriptions(cleanupSubscriptions)
         /\ pendingMessagesRef' = {}
         /\ currentRoom' = NoRoom
         /\ currentRoomRef' = NoRoom
         /\ isAIResponding' = FALSE
         /\ sends' = [s \in SendIds |-> IF sends[s].pc = "idle" THEN sends[s]
                                         ELSE [sends[s] EXCEPT !.mounted = FALSE]]
         /\ chatInput' = NoInput               \* ChatRoom unmounts
         /\ mentionState' = NoMention
         /\ UNCHANGED <<user, rooms, isConnected, joins, creates, toggles,
                        authEvents, roomsLoads, reloads, dbVars, presence, replyCall>>

\* `room_${Date.now()}_${random}`: an id no room has
NewRoomId == CHOOSE r \in CreatedRooms : r \notin dbRooms

\* createRoom up to the response of create_room_with_participant and beyond
CreateRoom(ok) ==
    /\ Len(creates) < MaxCreates
    /\ CreatedRooms \ dbRooms # {}
    /\ creates' = Append(creates, [gateway |-> IF ok THEN "ok" ELSE "error",
                                    result |-> IF user = NoUser \/ ~ok THEN "thrown"
                                               ELSE "returned"])
    /\ IF user = NoUser \/ ~ok
       THEN UNCHANGED <<clientVars, aiTimers, dbRooms, dbParticipants, dbSettings, eventVars>>
       ELSE LET roomId == NewRoomId
                newRoom == [id |-> roomId, participants |-> {user.id},
                            settings |-> [roomId |-> roomId, isAIMuted |-> FALSE,
                                         aiMutedBy |-> "undefined"],
                            messages |-> << >>]
            IN  /\ dbRooms' = dbRooms \cup {roomId}
                /\ dbParticipants' = [dbParticipants EXCEPT ![roomId] = {user.id}]
                /\ dbSettings' = [dbSettings EXCEPT ![roomId] =
                                      [is_ai_muted |-> FALSE, ai_muted_by |-> "null"]]
                /\ rooms' = Append(rooms, roomId)
                /\ currentRoom' = newRoom
                /\ currentRoomRef' = newRoom
                /\ SetSubscriptions(setupRealtimeSubscriptions(roomId))
                /\ UNCHANGED <<user, isConnected, isAIResponding, pendingMessagesRef>>
    /\ UNCHANGED <<sends, joins, toggles, authEvents, roomsLoads, reloads,
                   dbMessages, clock, otherMsgs>>
    /\ UNCHANGED viewVars

(***************************************************************************)
(* sendMessage.                                                            *)
(***************************************************************************)
NextSend(s) == sends[s].pc = "idle" /\ \A k \in SendIds : k < s => sends[k].pc # "idle"

\* const isAIMuted = currentRoom?.settings?.isAIMuted || false
isAIMuted == IF currentRoom = NoRoom THEN FALSE ELSE currentRoom.settings.isAIMuted

\* setCurrentRoom(prevRoom => prevRoom ? { ...prevRoom, messages: updated } : prevRoom)
\* together with currentRoomRef.current = updatedRoom
UpdateMessages(updated) ==
    IF currentRoom = NoRoom
    THEN UNCHANGED <<currentRoom, currentRoomRef>>
    ELSE /\ currentRoom' = [currentRoom EXCEPT !.messages = updated]
         /\ currentRoomRef' = currentRoom'

\* sendMessage up to the insert into messages being issued
SendMessage(s, content) ==
    /\ NextSend(s)
    /\ user # NoUser
    /\ currentRoom # NoRoom
    /\ LET optimisticMessage ==
               Message(TempId(s), currentRoom.id, user.id, content, FALSE, clock, NoReply)
           add(messages) == Append(messages, optimisticMessage)
       IN  /\ pendingMessagesRef' = pendingMessagesRef \cup {TempId(s)}
           /\ UpdateMessages(add(currentRoom.messages))
    /\ sends' = [sends EXCEPT ![s] = [@ EXCEPT !.pc = "inserting", !.room = currentRoom.id,
                                                !.muted = isAIMuted, !.content = content]]
    /\ UNCHANGED <<user, rooms, isConnected, isAIResponding, subscriptionVars,
                   aiResponseTimeoutRef, aiTimers, joins, creates, toggles, authEvents,
                   roomsLoads, reloads, dbVars, eventVars>>

\* the messages table takes a row; the INSERT event goes to the subscribed channel
InsertRow(m) ==
    /\ dbMessages' = [dbMessages EXCEPT ![m.roomId] = Append(@, m)]
    /\ clock' = clock + 1
    /\ msgEvents' = IF messagesChannelRef = m.roomId THEN Append(msgEvents, m) ELSE msgEvents

\* the gateway executes the insert of sendMessage
GatewayInsert(s) ==
    /\ sends[s].pc = "inserting"
    /\ InsertRow(Message(DurableId(clock + 1), sends[s].room, user.id, sends[s].content,
                         FALSE, clock + 1, NoReply))
    /\ sends' = [sends EXCEPT ![s] = [@ EXCEPT !.pc = "inserted",
                                                !.durable = DurableId(clock + 1)]]
    /\ UNCHANGED <<clientVars, aiTimers, joins, creates, toggles, authEvents, roomsLoads,
                   reloads, dbRooms, dbParticipants, dbSettings, otherMsgs,
                   partEvents, settingsEvents>>
    /\ UNCHANGED viewVars

\* a rollback that drops the last entry of the list, whichever it is
RemoveLastMessage(messages, tempId) == SubSeq(messages, 1, Len(messages) - 1)

\* prevRoom.messages.filter(m => m.id !== tempId)
RemoveMessage(messages, tempId) == SelectSeq(messages, LAMBDA m : m.id # tempId)

\* the insert answers with an error: roll back and throw
SendFail(s) ==
    /\ sends[s].pc = "inserting"
    /\ pendingMessagesRef' = pendingMessagesRef \ {TempId(s)}
    /\ LET remove(messages) == RemoveMessage(messages, TempId(s))
       IN  UpdateMessages(remove(currentRoom.messages))
    /\ sends' = [sends EXCEPT ![s] = [@ EXCEPT !.pc = "failed", !.result = "error"]]
    /\ chatInput' = IF sends[s].mounted                \* catch of handleSendMessage
                    THEN [chatInput EXCEPT !.value = sends[s].content] ELSE chatInput
    /\ UNCHANGED <<user, rooms, isConnected, isAIResponding, subscriptionVars,
                   aiResponseTimeoutRef, aiTimers, joins, creates, toggles, authEvents,
                   roomsLoads, reloads, dbVars, eventVars>>
    /\ UNCHANGED <<mentionState, presence, replyCall>>

\* a reconciliation that adds the durable message and leaves the provisional one
ReplaceMessageAppending(messages, tempId, realMessage) == Append(messages, realMessage)

\* prevRoom.messages.map(m => m.id === tempId ? realMessage : m)
ReplaceMessage(messages, tempId, realMessage) ==
    [i \in 1..Len(messages) |-> IF messages[i].id = tempId THEN realMessage ELSE messages[i]]

\* a trigger that looks at the mention only
MentionTriggersAI(muted, content) == MentionsAI(content)

\* !isAIMuted && (content.includes('@AI') || content.toLowerCase().includes('@ai'))
ShouldTriggerAI(muted, content) == ~muted /\ MentionsAI(content)

\* the insert answers with the row: reconcile, then decide on the AI turn
SendReconcile(s) ==
    /\ sends[s].pc = "inserted"
    /\ pendingMessagesRef' = pendingMessagesRef \ {TempId(s)}
    /\ LET realMessage == Message(sends[s].durable, sends[s].room, user.id, sends[s].content,
                                  FALSE, sends[s].durable[2], NoReply)
           replace(messages) == ReplaceMessage(messages, TempId(s), realMessage)
       IN  UpdateMessages(replace(currentRoom.messages))
    /\ IF ShouldTriggerAI(sends[s].muted, sends[s].content)
       THEN /\ isAIResponding' = TRUE
            /\ aiTimers' = (aiTimers \ {aiResponseTimeoutRef}) \cup {s}
            /\ aiResponseTimeoutRef' = s
            /\ sends' = [sends EXCEPT ![s] = [@ EXCEPT !.pc = "aiDelay", !.result = "ok"]]
       ELSE /\ sends' = [sends EXCEPT ![s] = [@ EXCEPT !.pc = "done", !.result = "ok"]]
            /\ UNCHANGED <<isAIResponding, aiTimers, aiResponseTimeoutRef>>
    /\ UNCHANGED <<user, rooms, isConnected, subscriptionVars, joins, creates, toggles,
                   authEvents, roomsLoads, reloads, dbVars, eventVars>>
    /\ UNCHANGED viewVars

\* the 25 s safeguard timeout fires
AITimeout(t) ==
    /\ t \in aiTimers
    /\ aiTimers' = aiTimers \ {t}
    /\ isAIResponding' = FALSE
    /\ UNCHANGED <<user, currentRoom, currentRoomRef, rooms, isConnected, subscriptionVars,
                   aiResponseTimeoutRef, pendingMessagesRef, sends, joins, creates, toggles,
                   authEvents, roomsLoads, reloads, dbVars, eventVars>>
    /\ UNCHANGED viewVars

(***************************************************************************)
(* The AI Responder (KlusterAIService).  An outcome is what the call of    *)
(* client.chat.completions.create does: it resolves with a completion      *)
(* (content is empty for a missing or empty content), it rejects with a    *)
(* thrown value (isError: the value is an Error), or it stays pending.     *)
(***************************************************************************)
MsgTimeout == <<"A","I"," ","r","e","s","p","o","n","s","e"," ","t","i","m","e","o","u","t">>
MsgFetch == <<"F","a","i","l","e","d"," ","t","o"," ","f","e","t","c","h">>
MsgNetwork == <<"n","e","t","w","o","r","k"," ","e","r","r","o","r">>
Msg401 == <<"4","0","1"," ","U","n","a","u","t","h","o","r","i","z","e","d">>
Msg500 == <<"5","0","0"," ","S","e","r","v","e","r"," ","E","r","r","o","r">>

Completed == Outcome("completion", StrAIReply, FALSE, << >>)
Pending == Outcome("pending", << >>, FALSE, << >>)

\* the messages of the values a call is rejected with
Messages == {MsgTimeout, MsgFetch, MsgNetwork, Msg401, Msg500}

\* what the completions endpoint can do to a call
Outcomes ==
    {Outcome("completion", content, FALSE, << >>) : content \in {StrAIReply, << >>}}
    \cup {Pending}
    \cup {Outcome("rejected", << >>, isError, message) : isError \in BOOLEAN, message \in Messages}

StrApology == <<"I"," ","a","p","o","l","o","g","i","z","e">>
StrTimeoutFallback == <<"t","a","k","i","n","g"," ","l","o","n","g","e","r">>
StrNetworkFallback == <<"n","e","t","w","o","r","k"," ","i","s","s","u","e","s">>
StrAuthFallback == <<"a","u","t","h","e","n","t","i","c","a","t","i","o","n"," ","i","s","s","u","e","s">>
StrGenericFallback == <<"t","r","o","u","b","l","e"," ","c","o","n","n","e","c","t","i","n","g"," ","t","o"," ","m","y"," ","A","I"," ","s","e","r","v","i","c","e">>

\* Promise.race([completionPromise, timeoutPromise]): a pending call loses to the timeout
Race(outcome, timeoutMessage) ==
    IF outcome.kind = "pending" THEN Outcome("rejected", << >>, TRUE, timeoutMessage)
    ELSE outcome

\* a generateResponse that hands on whatever content the completion has
generateResponseRaw(outcome) ==
    IF outcome.kind = "completion" THEN outcome.content ELSE StrGenericFallback

\* KlusterAIService.generateResponse: the string the promise resolves to
generateResponse(outcome) ==
    LET raced == Race(outcome, MsgTimeout)
    IN  IF raced.kind = "completion"
        THEN IF raced.content # << >> THEN raced.content ELSE StrApology
        ELSE IF raced.isError /\ raced.message = MsgTimeout THEN StrTimeoutFallback
        ELSE IF raced.isError /\ (includes(raced.message, <<"f","e","t","c","h">>)
                                  \/ includes(raced.message, <<"n","e","t","w","o","r","k">>))
             THEN StrNetworkFallback
        ELSE IF raced.isError /\ includes(raced.message, <<"4","0","1">>) THEN StrAuthFallback
        ELSE StrGenericFallback

MsgTestTimeout == <<"C","o","n","n","e","c","t","i","o","n"," ","t","e","s","t"," ","t","i","m","e","o","u","t">>

\* a testConnection that takes any completion for an answer
testConnectionAnyCompletion(outcome) ==
    Race(outcome, MsgTestTimeout).kind = "completion"

\* KlusterAIService.testConnection: !!response, and false from the catch
testConnection(outcome) ==
    LET raced == Race(outcome, MsgTestTimeout)
    IN  IF raced.kind = "completion" THEN raced.content # << >> ELSE FALSE

(***************************************************************************)
(* The AI turn (the setTimeout callback of sendMessage).                   *)
(***************************************************************************)
\* setIsAIResponding(false) and the cancellation of the safeguard timeout
ClearAIResponding ==
    /\ isAIResponding' = FALSE
    /\ aiTimers' = aiTimers \ {aiResponseTimeoutRef}
    /\ aiResponseTimeoutRef' = NoTimer

\* currentRoomRef.current?.messages || []
RefMessages == IF currentRoomRef = NoRoom THEN << >> ELSE currentRoomRef.messages

HistoryLength == 10       \* .slice(-10) of the AI turn
CompletionLength == 5     \* messages.slice(-5) of generateResponse

\* list.slice(-n)
sliceLast(list, n) == SubSeq(list, IF Len(list) > n THEN Len(list) - n + 1 ELSE 1, Len(list))

\* `${m.userName}: ${m.content}` (the user id stands for the display name)
NamedContent(m) == <<m.userId, ":", " ">> \o m.content

\* recentMessages of the AI turn: the last 10 entries that are not provisional, as
\* { role, content }
RecentMessages(messages) ==
    LET durable == SelectSeq(messages, LAMBDA m : ~IsTempId(m.id))
        window == sliceLast(durable, HistoryLength)
    IN  [i \in 1..Len(window) |->
            [role |-> IF window[i].isAI THEN "assistant" ELSE "user",
             content |-> NamedContent(window[i])]]

\* the messages generateResponse puts into the completion request after the system
\* prompt: ...messages.slice(-5)
completionMessages(messages) == sliceLast(messages, CompletionLength)

\* the 1.5 s delay has passed and the probe is over: testConnection has answered true
\* ("ok") or false ("unavailable"), or the callback has thrown before the generation
AIProbeWith(s, outcome, probed) ==
    /\ sends[s].pc = "aiDelay"
    /\ IF outcome = "ok"
       THEN /\ sends' = [sends EXCEPT ![s] = [@ EXCEPT !.pc = "generating",
                                                        !.probed = probed,
                                                        !.history = RecentMessages(RefMessages)]]
            /\ UNCHANGED <<isAIResponding, aiTimers, aiResponseTimeoutRef>>
       ELSE /\ ClearAIResponding
            /\ sends' = [sends EXCEPT ![s] =
                            [@ EXCEPT !.pc = "aiPlain", !.probed = probed,
                                      !.aiText = IF outcome = "unavailable"
                                                 THEN StrUnavailable ELSE StrTrouble]]
    /\ UNCHANGED <<user, currentRoom, currentRoomRef, rooms, isConnected, subscriptionVars,
                   pendingMessagesRef, joins, creates, toggles, authEvents, roomsLoads,
                   reloads, dbVars, eventVars>>
    /\ UNCHANGED viewVars

AIProbe(s, outcome) == AIProbeWith(s, outcome, NoOutcome)

\* the probe, by what the completions endpoint does to the call of testConnection
AIProbeAnswer(s, outcome) ==
    AIProbeWith(s, IF testConnection(outcome) THEN "ok" ELSE "unavailable", outcome)

RECURSIVE findReplyTargetFrom(_, _, _)
\* the first loop of findReplyTarget, from index i down
findReplyTargetFrom(content, recentMessages, i) ==
    IF i < 1 THEN NoId
    ELSE IF recentMessages[i].isAI THEN findReplyTargetFrom(content, recentMessages, i - 1)
    ELSE IF MentionsAI(content) THEN recentMessages[i].id
    ELSE IF LET lower == toLowerCase(recentMessages[i].content)
            IN  \/ includes(recentMessages[i].content, <<"?">>)
                \/ includes(lower, <<"h","o","w">>)
                \/ includes(lower, <<"w","h","a","t">>)
                \/ includes(lower, <<"w","h","y">>)
                \/ includes(lower, <<"w","h","e","n">>)
                \/ includes(lower, <<"w","h","e","r","e">>)
                \/ includes(lower, <<"c","a","n"," ","y","o","u">>)
                \/ includes(lower, <<"c","o","u","l","d"," ","y","o","u">>)
                \/ includes(lower, <<"h","e","l","p">>)
         THEN recentMessages[i].id
    ELSE findReplyTargetFrom(content, recentMessages, i - 1)

\* a search that leaves out the last entry of the list
findReplyTargetBeforeLast(content, recentMessages) ==
    LET earlier == SubSeq(recentMessages, 1, Len(recentMessages) - 1)
        nonAI == {i \in 1..Len(earlier) : ~earlier[i].isAI}
    IN  IF nonAI = {} THEN NoId
        ELSE earlier[CHOOSE i \in nonAI : \A k \in nonAI : k <= i].id

\* a search that ends with its first loop
findReplyTargetFirstLoop(content, recentMessages) ==
    findReplyTargetFrom(content, recentMessages, Len(recentMessages))

\* findReplyTarget(content, recentMessages): the id of the message, or NoId for null
findReplyTarget(content, recentMessages) ==
    LET found == findReplyTargetFrom(content, recentMessages, Len(recentMessages))
        nonAI == {i \in 1..Len(recentMessages) : ~recentMessages[i].isAI}
    IN  IF found # NoId THEN found
        ELSE IF nonAI = {} THEN NoId
        ELSE recentMessages[CHOOSE i \in nonAI : \A k \in nonAI : k <= i].id

\* a call of findReplyTarget with the arguments of replyCall
CallFindReplyTarget ==
    /\ ~replyCall.called
    /\ replyCall' = [replyCall EXCEPT !.called = TRUE,
                                      !.target = findReplyTarget(replyCall.content,
                                                                 replyCall.messages)]
    /\ UNCHANGED <<clientVars, asyncVars, dbVars, eventVars, chatInput, mentionState,
                   presence>>

ExcerptLength == 50

\* content.length > 50 ? content.substring(0, 50) + '...' : content
Excerpt(content) ==
    IF Len(content) > ExcerptLength THEN SubSeq(content, 1, ExcerptLength) \o Ellipsis
    ELSE content

MessageById(messages, id) == messages[CHOOSE i \in 1..Len(messages) : messages[i].id = id]

\* klusterAI.generateResponse has answered: find the reply target, issue the insertion
AIGenerateWith(s, outcome) ==
    /\ sends[s].pc = "generating"
    /\ LET currentMessages == RefMessages
           replyTarget == findReplyTarget(sends[s].content, currentMessages)
           replyingToData ==
               IF replyTarget = NoId THEN NoReply
               ELSE LET m == MessageById(currentMessages, replyTarget)
                    IN  [userId |-> m.userId, content |-> Excerpt(m.content)]
       IN  sends' = [sends EXCEPT ![s] = [@ EXCEPT !.pc = "aiInsert",
                                                   !.aiText = generateResponse(outcome),
                                                   !.completion = outcome,
                                                   !.history = << >>,
                                                   !.reply = replyingToData,
                                                   !.target = replyTarget,
                                                   !.seen = currentMessages]]
    /\ UNCHANGED <<clientVars, aiTimers, joins, creates, toggles, authEvents, roomsLoads,
                   reloads, dbVars, eventVars>>
    /\ UNCHANGED viewVars

\* the completions endpoint answers with a text
AIGenerate(s) == AIGenerateWith(s, Completed)

\* an insertion with reply metadata whose failure ends the turn
AIInsertNoFallback(s, ok) ==
    /\ sends[s].pc = "aiInsert"
    /\ IF ok /\ sends[s].room \in dbRooms
       THEN InsertRow(Message(DurableId(clock + 1), sends[s].room, AIUser, sends[s].aiText,
                              TRUE, clock + 1, sends[s].reply))
       ELSE UNCHANGED <<dbMessages, clock, msgEvents>>
    /\ sends' = [sends EXCEPT ![s] = [@ EXCEPT !.pc = "done"]]
    /\ UNCHANGED <<clientVars, aiTimers, joins, creates, toggles, authEvents, roomsLoads,
                   reloads, dbRooms, dbParticipants, dbSettings, otherMsgs,
                   partEvents, settingsEvents>>
    /\ UNCHANGED viewVars

\* the gateway executes insert_ai_message_with_reply; on error the client falls back
AIInsert(s, ok) ==
    /\ sends[s].pc = "aiInsert"
    /\ IF ok /\ sends[s].room \in dbRooms
       THEN /\ InsertRow(Message(DurableId(clock + 1), sends[s].room, AIUser, sends[s].aiText,
                                 TRUE, clock + 1, sends[s].reply))
            /\ sends' = [sends EXCEPT ![s] = [@ EXCEPT !.pc = "done"]]
       ELSE /\ sends' = [sends EXCEPT ![s] = [@ EXCEPT !.pc = "aiPlain", !.aiText = StrTrouble]]
            /\ UNCHANGED <<dbMessages, clock, msgEvents>>
    /\ UNCHANGED <<clientVars, aiTimers, joins, creates, toggles, authEvents, roomsLoads,
                   reloads, dbRooms, dbParticipants, dbSettings, otherMsgs,
                   partEvents, settingsEvents>>
    /\ UNCHANGED viewVars

\* the gateway executes insert_ai_message (no reply metadata)
AIInsertPlain(s, ok) ==
    /\ sends[s].pc = "aiPlain"
    /\ IF ok /\ sends[s].room \in dbRooms
       THEN InsertRow(Message(DurableId(clock + 1), sends[s].room, AIUser, sends[s].aiText,
                              TRUE, clock + 1, NoReply))
       ELSE UNCHANGED <<dbMessages, clock, msgEvents>>
    /\ sends' = [sends EXCEPT ![s] = [@ EXCEPT !.pc = "done"]]
    /\ UNCHANGED <<clientVars, aiTimers, joins, creates, toggles, authEvents, roomsLoads,
                   reloads, dbRooms, dbParticipants, dbSettings, otherMsgs,
                   partEvents, settingsEvents>>
    /\ UNCHANGED viewVars

(***************************************************************************)
(* Change events and the reloads their handlers start.                     *)
(***************************************************************************)
\* a handler that clears the AI sub-state only for a message the list does not hold yet
MessageEventClearingOnNew ==
    /\ msgEvents # << >>
    /\ LET roomId == messagesChannelRef
           newMessage == [Head(msgEvents) EXCEPT !.replyingTo = parseReplyingTo(@)]
           add(messages) == IF \E i \in 1..Len(messages) : messages[i].id = newMessage.id
                            THEN messages
                            ELSE Append(messages, newMessage)
       IN  /\ IF newMessage.isAI /\ add(RefMessages) # RefMessages
              THEN ClearAIResponding
              ELSE UNCHANGED <<isAIResponding, aiTimers, aiResponseTimeoutRef>>
           /\ pendingMessagesRef' = pendingMessagesRef \ {newMessage.id}
           /\ IF currentRoom # NoRoom /\ currentRoom.id = roomId
              THEN UpdateMessages(add(currentRoom.messages))
              ELSE UNCHANGED <<currentRoom, currentRoomRef>>
           /\ reloads' = reloads \cup {Reload("participants", roomId)}
    /\ msgEvents' = Tail(msgEvents)
    /\ UNCHANGED <<user, rooms, isConnected, subscriptionVars, sends, joins, creates,
                   toggles, authEvents, roomsLoads, dbVars, partEvents, settingsEvents>>
    /\ UNCHANGED viewVars

\* the handler of the messages channel (INSERT on messages, room_id = roomId)
MessageEvent ==
    /\ msgEvents # << >>
    /\ LET roomId == messagesChannelRef
           newMessage == [Head(msgEvents) EXCEPT !.replyingTo = parseReplyingTo(@)]
           add(messages) == IF \E i \in 1..Len(messages) : messages[i].id = newMessage.id
                            THEN messages
                            ELSE Append(messages, newMessage)
       IN  /\ IF newMessage.isAI
              THEN ClearAIResponding
              ELSE UNCHANGED <<isAIResponding, aiTimers, aiResponseTimeoutRef>>
           /\ pendingMessagesRef' = pendingMessagesRef \ {newMessage.id}
           /\ IF currentRoom # NoRoom /\ currentRoom.id = roomId
              THEN UpdateMessages(add(currentRoom.messages))
              ELSE UNCHANGED <<currentRoom, currentRoomRef>>
           /\ reloads' = reloads \cup {Reload("participants", roomId)}
    /\ msgEvents' = Tail(msgEvents)
    /\ UNCHANGED <<user, rooms, isConnected, subscriptionVars, sends, joins, creates,
                   toggles, authEvents, roomsLoads, dbVars, partEvents, settingsEvents>>
    /\ UNCHANGED viewVars

\* the handler of the participants channel (INSERT on room_participants)
ParticipantsEvent ==
    /\ partEvents > 0
    /\ partEvents' = partEvents - 1
    /\ reloads' = reloads \cup {Reload("participants", participantsChannelRef)}
    /\ UNCHANGED <<clientVars, aiTimers, sends, joins, creates, toggles, authEvents,
                   roomsLoads, dbVars, msgEvents, settingsEvents>>
    /\ UNCHANGED viewVars

\* the handler of the settings channel (any change of room_settings)
SettingsEvent ==
    /\ settingsEvents > 0
    /\ settingsEvents' = settingsEvents - 1
    /\ reloads' = reloads \cup {Reload("settings", settingsChannelRef)}
    /\ UNCHANGED <<clientVars, aiTimers, sends, joins, creates, toggles, authEvents,
                   roomsLoads, dbVars, msgEvents, partEvents>>
    /\ UNCHANGED viewVars

\* the 60 s presence interval fires
PresenceTick ==
    /\ presenceUpdateInterval # NoChannel
    /\ currentRoomRef # NoRoom
    /\ reloads' = reloads \cup {Reload("participants", presenceUpdateInterval)}
    /\ UNCHANGED <<clientVars, aiTimers, sends, joins, creates, toggles, authEvents,
                   roomsLoads, dbVars, eventVars>>
    /\ UNCHANGED viewVars

\* a participants reload that answers without looking at the id of the room
ParticipantsReloadReturnAnyRoom(q, participants, ok) ==
    /\ q \in reloads
    /\ q.kind = "participants"
    /\ participants \in q.participants
    /\ reloads' = reloads \ {q}
    /\ IF currentRoom # NoRoom
       THEN /\ currentRoom' = [currentRoom EXCEPT !.participants =
                                                     IF ok THEN participants ELSE {}]
            /\ currentRoomRef' = currentRoom'
       ELSE UNCHANGED <<currentRoom, currentRoomRef>>
    /\ UNCHANGED <<user, rooms, isConnected, isAIResponding, subscriptionVars,
                   aiResponseTimeoutRef, pendingMessagesRef, aiTimers, sends, joins, creates,
                   toggles, authEvents, roomsLoads, dbVars, eventVars>>
    /\ UNCHANGED viewVars

\* a participants reload answers:
\* setCurrentRoom(prevRoom => prevRoom && prevRoom.id === roomId ? ... : prevRoom)
ParticipantsReloadReturn(q, participants, ok) ==
    /\ q \in reloads
    /\ q.kind = "participants"
    /\ participants \in q.participants
    /\ reloads' = reloads \ {q}
    /\ IF currentRoom # NoRoom /\ currentRoom.id = q.room
       THEN /\ currentRoom' = [currentRoom EXCEPT !.participants =
                                                     IF ok THEN participants ELSE {}]
            /\ currentRoomRef' = currentRoom'
       ELSE UNCHANGED <<currentRoom, currentRoomRef>>
    /\ UNCHANGED <<user, rooms, isConnected, isAIResponding, subscriptionVars,
                   aiResponseTimeoutRef, pendingMessagesRef, aiTimers, sends, joins, creates,
                   toggles, authEvents, roomsLoads, dbVars, eventVars>>
    /\ UNCHANGED viewVars

\* a settings reload answers
SettingsReloadReturn(q, muted, ok) ==
    /\ q \in reloads
    /\ q.kind = "settings"
    /\ muted \in q.muted
    /\ reloads' = reloads \ {q}
    /\ IF currentRoom # NoRoom /\ currentRoom.id = q.room
       THEN /\ currentRoom' = [currentRoom EXCEPT !.settings = RoomSettings(q.room, muted, ok)]
            /\ currentRoomRef' = currentRoom'
       ELSE UNCHANGED <<currentRoom, currentRoomRef>>
    /\ UNCHANGED <<user, rooms, isConnected, isAIResponding, subscriptionVars,
                   aiResponseTimeoutRef, pendingMessagesRef, aiTimers, sends, joins, creates,
                   toggles, authEvents, roomsLoads, dbVars, eventVars>>
    /\ UNCHANGED viewVars

(***************************************************************************)
(* Presence.  Time is counted in seconds.                                  *)
(***************************************************************************)
PresenceWindow == 600       \* interval '10 minutes'

\* the created_at of the rows of messages with room_id = roomId, is_ai = false and
\* user_id = userId (the group of the subquery m)
MessageTimes(roomId, userId) ==
    {dbMessages[roomId][i].timestamp :
        i \in {k \in 1..Len(dbMessages[roomId]) :
                   /\ dbMessages[roomId][k].roomId = roomId
                   /\ ~dbMessages[roomId][k].isAI
                   /\ dbMessages[roomId][k].userId = userId}}

\* a presence query that goes by the first message of a participant
presence_by_first_message(roomId, now) ==
    {[userId |-> u,
      isOnline |-> LET times == MessageTimes(roomId, u)
                   IN  IF times = {} THEN FALSE
                       ELSE (CHOOSE t \in times : \A x \in times : t <= x)
                                > now - PresenceWindow] :
        u \in dbParticipants[roomId]}

\* get_room_participants_with_presence(p_room_id) evaluated at now(): user_id and
\* is_online of each participant; a participant without a row in m has no
\* last_message_time and the CASE takes its ELSE
get_room_participants_with_presence(roomId, now) ==
    {[userId |-> u,
      isOnline |-> LET times == MessageTimes(roomId, u)
                   IN  IF times = {} THEN FALSE
                       ELSE LET last_message_time == CHOOSE t \in times : \A x \in times : x <= t
                            IN  last_message_time > now - PresenceWindow] :
        u \in dbParticipants[roomId]}

\* loadParticipantsWithPresence(roomId) with the flags: isOnline: p.is_online || false
LoadPresence(roomId) ==
    /\ roomId \in dbRooms
    /\ presence' = [room |-> roomId,
                    rows |-> {[userId |-> p.userId, isOnline |-> p.isOnline \/ FALSE] :
                                 p \in get_room_participants_with_presence(roomId, clock)}]
    /\ UNCHANGED <<clientVars, asyncVars, dbVars, eventVars, chatInput, mentionState,
                   replyCall>>

\* a second passes
Tick ==
    /\ clock < 2 * PresenceWindow + MaxTicks
    /\ clock' = clock + 1
    /\ UNCHANGED <<clientVars, asyncVars, dbRooms, dbMessages, dbParticipants, dbSettings,
                   otherMsgs, eventVars, viewVars>>

(***************************************************************************)
(* toggleAIMute, the other participant, the auth state, the room list.     *)
(***************************************************************************)
\* toggle_room_ai_mute: flip the stored state; the change goes to the settings channel
ToggleRow(roomId) ==
    /\ LET current_mute_status == dbSettings[roomId].is_ai_muted
           row == [is_ai_muted |-> ~current_mute_status,
                   ai_muted_by |-> IF ~current_mute_status THEN user.id ELSE "null"]
       IN  /\ dbSettings' = [dbSettings EXCEPT ![roomId] = row]
           /\ reloads' = SeeSettings(roomId, row)
    /\ settingsEvents' = IF settingsChannelRef = roomId
                         THEN settingsEvents + 1 ELSE settingsEvents

\* toggleAIMute together with the gateway's execution of toggle_room_ai_mute
ToggleAIMute(ok) ==
    /\ Len(toggles) < MaxToggles
    /\ currentRoom # NoRoom
    /\ user # NoUser
    /\ toggles' = Append(toggles, [gateway |-> IF ok /\ user.id \in dbParticipants[currentRoom.id]
                                                THEN "ok" ELSE "error",
                                    result |-> "returned"])
    /\ IF ok /\ user.id \in dbParticipants[currentRoom.id]
       THEN ToggleRow(currentRoom.id)
       ELSE UNCHANGED <<dbSettings, settingsEvents, reloads>>
    /\ UNCHANGED <<clientVars, aiTimers, sends, joins, creates, authEvents, roomsLoads,
                   dbRooms, dbMessages, dbParticipants, clock, otherMsgs,
                   msgEvents, partEvents>>
    /\ UNCHANGED viewVars

\* the other participant toggles the AI mute of room r from their client while this
\* client listens to the settings channel of r: toggle_room_ai_mute flips the stored
\* state and names them as the one who muted
OtherToggle(r) ==
    /\ otherMsgs < MaxOtherMsgs
    /\ r \in dbRooms
    /\ Other \in dbParticipants[r]
    /\ settingsChannelRef = r
    /\ otherMsgs' = otherMsgs + 1
    /\ LET current_mute_status == dbSettings[r].is_ai_muted
           row == [is_ai_muted |-> ~current_mute_status,
                   ai_muted_by |-> IF ~current_mute_status THEN Other ELSE "null"]
       IN  /\ dbSettings' = [dbSettings EXCEPT ![r] = row]
           /\ reloads' = SeeSettings(r, row)
    /\ settingsEvents' = settingsEvents + 1
    /\ UNCHANGED <<clientVars, aiTimers, sends, joins, creates, toggles, authEvents,
                   roomsLoads, dbRooms, dbMessages, dbParticipants, clock,
                   msgEvents, partEvents>>
    /\ UNCHANGED viewVars

\* the other participant sends a message from their client
OtherSend(r) ==
    /\ otherMsgs < MaxOtherMsgs
    /\ r \in dbRooms
    /\ Other \in dbParticipants[r]
    /\ otherMsgs' = otherMsgs + 1
    /\ InsertRow(Message(DurableId(clock + 1), r, Other, StrNotSure, FALSE, clock + 1, NoReply))
    /\ UNCHANGED <<clientVars, asyncVars, dbRooms, dbParticipants, dbSettings,
                   partEvents, settingsEvents>>
    /\ UNCHANGED viewVars

\* the AI turn of the other participant's client persists its message in room r
OtherAITurn(r) ==
    /\ otherMsgs < MaxOtherMsgs
    /\ r \in dbRooms
    /\ Other \in dbParticipants[r]
    /\ otherMsgs' = otherMsgs + 1
    /\ InsertRow(Message(DurableId(clock + 1), r, AIUser, StrAIReply, TRUE, clock + 1, NoReply))
    /\ UNCHANGED <<clientVars, asyncVars, dbRooms, dbParticipants, dbSettings,
                   partEvents, settingsEvents, viewVars>>

\* another writer of the messages table persists an AI message whose replying_to is a
\* string that is no JSON text
ForeignInsert(r) ==
    /\ otherMsgs < MaxOtherMsgs
    /\ r \in dbRooms
    /\ otherMsgs' = otherMsgs + 1
    /\ InsertRow(Message(DurableId(clock + 1), r, AIUser, StrAIReply, TRUE, clock + 1,
                         Undecodable))
    /\ UNCHANGED <<clientVars, asyncVars, dbRooms, dbParticipants, dbSettings,
                   partEvents, settingsEvents, viewVars>>

\* the realtime service delivers the INSERT event of a row of the subscribed room again
Redeliver(i) ==
    /\ messagesChannelRef # NoChannel
    /\ i \in 1..Len(dbMessages[messagesChannelRef])
    /\ \A k \in 1..Len(msgEvents) : msgEvents[k] # dbMessages[messagesChannelRef][i]
    /\ \E k \in 1..Len(RefMessages) : RefMessages[k].id = dbMessages[messagesChannelRef][i].id
    /\ msgEvents' = Append(msgEvents, dbMessages[messagesChannelRef][i])
    /\ UNCHANGED <<clientVars, asyncVars, dbVars, partEvents, settingsEvents, viewVars>>

\* the other participant joins a room (join_room_as_participant on their client)
OtherJoin(r) ==
    /\ r \in dbRooms
    /\ Other \notin dbParticipants[r]
    /\ dbParticipants' = [dbParticipants EXCEPT ![r] = @ \cup {Other}]
    /\ reloads' = SeeParticipants(r, dbParticipants[r] \cup {Other})
    /\ partEvents' = IF participantsChannelRef = r THEN partEvents + 1 ELSE partEvents
    /\ UNCHANGED <<clientVars, aiTimers, sends, joins, creates, toggles, authEvents,
                   roomsLoads, dbRooms, dbMessages, dbSettings, clock, otherMsgs,
                   msgEvents, settingsEvents>>
    /\ UNCHANGED viewVars

\* onAuthStateChange with a session: loadUserProfile calls setUser with a new object;
\* the effect on [user] runs its cleanup and then initializeConnection again
AuthStateChange ==
    /\ authEvents < MaxAuthEvents
    /\ user # NoUser
    /\ authEvents' = authEvents + 1
    /\ user' = [user EXCEPT !.obj = @ + 1]
    /\ SetSubscriptions(cleanupSubscriptions)
    /\ pendingMessagesRef' = {}
    /\ roomsLoads' = roomsLoads + 1
    /\ UNCHANGED <<currentRoom, currentRoomRef, rooms, isConnected, isAIResponding,
                   sends, joins, creates, toggles, reloads, dbVars>>
    /\ UNCHANGED viewVars

\* loadRoomsFromSupabase answers, then initializeConnection sets isConnected
LoadRoomsReturn(outcome) ==
    /\ roomsLoads > 0
    /\ roomsLoads' = roomsLoads - 1
    /\ rooms' = IF outcome = "ok" THEN ParticipantRooms
                ELSE IF outcome = "error" THEN rooms
                ELSE << >>
    /\ isConnected' = TRUE
    /\ UNCHANGED <<user, currentRoom, currentRoomRef, isAIResponding, subscriptionVars,
                   aiResponseTimeoutRef, pendingMessagesRef, aiTimers, sends, joins, creates,
                   toggles, authEvents, reloads, dbVars, eventVars>>
    /\ UNCHANGED viewVars

(***************************************************************************)
(* The user interface that calls the provider.                             *)
(***************************************************************************)
\* WelcomePage renders <ChatRoom /> instead of the room list when a room is current
WelcomePageShown == currentRoom = NoRoom

\* WelcomePage.joiningRoomId: set while handleJoinRoom awaits joinRoom
joiningRoomId == \E j \in JoinIds : joins[j].pc \notin {"idle", "failed", "done", "ignored"}

\* WelcomePage.handleJoinRoom (a click on a room, or the room of the URL)
HandleJoinRoom(j, r, ok) ==
    /\ WelcomePageShown
    /\ ~joiningRoomId
    /\ JoinRoom(j, r, ok)

\* a handleJoinRoom that calls joinRoom although a join is under way
HandleJoinRoomAgain(j, r) ==
    /\ WelcomePageShown
    /\ joiningRoomId
    /\ JoinRoom(j, r, TRUE)

\* WelcomePage.handleJoinRoom while a join is under way: the request is ignored
HandleJoinRoomBusy(j, r) ==
    /\ WelcomePageShown
    /\ joiningRoomId
    /\ NextJoin(j)
    /\ joins' = [joins EXCEPT ![j] = [@ EXCEPT !.pc = "ignored", !.room = r]]
    /\ UNCHANGED <<clientVars, aiTimers, sends, creates, toggles, authEvents, roomsLoads,
                   reloads, dbVars, eventVars, viewVars>>

\* WelcomePage.handleCreateRoom
HandleCreateRoom(ok) ==
    /\ WelcomePageShown
    /\ CreateRoom(ok)

(***************************************************************************)
(* The specification.                                                      *)
(***************************************************************************)
\* ChatRoom.handleSendMessage: the input is disabled while a send is awaited
isLoading == \E s \in SendIds : sends[s].pc \in {"inserting", "inserted"}

\* mentionState after closeMentions: setMentionState(prev => ({ ...prev, isOpen: false }))
closeMentions == [mentionState EXCEPT !.isOpen = FALSE]

\* content is the trimmed text of the input, which is emptied
HandleSendMessage(s, content) ==
    /\ ~isLoading
    /\ chatInput' = [chatInput EXCEPT !.value = << >>]
    /\ mentionState' = closeMentions
    /\ SendMessage(s, content)
    /\ UNCHANGED <<presence, replyCall>>

\* /\\s/.test(c)
IsWhitespace(c) == c \in {" ", "\t", "\n"}

RECURSIVE mentionStartFrom(_, _)
\* the loop of detectMention from index i down (indices count from 0); -1: no mention
mentionStartFrom(text, i) ==
    IF i < 0 THEN -1
    ELSE IF text[i + 1] = "@"
         THEN IF i = 0 \/ IsWhitespace(text[i]) THEN i ELSE mentionStartFrom(text, i - 1)
    ELSE IF IsWhitespace(text[i + 1]) THEN -1
    ELSE mentionStartFrom(text, i - 1)

\* text.slice(start, end)
slice(text, start, end) == SubSeq(text, start + 1, end)

\* a detection that takes the nearest '@' whatever precedes it
detectMentionAnyAt(prev, text, cursorPosition) ==
    LET ats == {i \in 0..(cursorPosition - 1) :
                   /\ text[i + 1] = "@"
                   /\ \A k \in (i + 1)..(cursorPosition - 1) : ~IsWhitespace(text[k + 1])}
    IN  IF ats = {} THEN [prev EXCEPT !.isOpen = FALSE]
        ELSE LET mentionStart == CHOOSE i \in ats : \A k \in ats : k <= i
             IN  [isOpen |-> TRUE, query |-> slice(text, mentionStart + 1, cursorPosition),
                  mentionStart |-> mentionStart]

\* useMentions.detectMention: the mentionState it sets (options, selectedIndex and
\* position, which the dropdown is drawn from, are left out)
detectMention(prev, text, cursorPosition) ==
    LET mentionStart == mentionStartFrom(text, cursorPosition - 1)
        query == slice(text, mentionStart + 1, cursorPosition)
    IN  IF mentionStart = -1 THEN [prev EXCEPT !.isOpen = FALSE]
        ELSE IF includes(query, <<" ">>) THEN [prev EXCEPT !.isOpen = FALSE]
        ELSE [isOpen |-> TRUE, query |-> query, mentionStart |-> mentionStart]

\* ChatRoom.handleTextareaChange: the textarea holds value, the cursor is at cursor
HandleTextareaChange(value, cursor) ==
    /\ currentRoom # NoRoom
    /\ ~isLoading
    /\ cursor \in 0..Len(value)
    /\ chatInput' = [value |-> value, cursor |-> cursor]
    /\ mentionState' = detectMention(mentionState, value, cursor)
    /\ UNCHANGED <<clientVars, asyncVars, dbVars, eventVars, presence, replyCall>>

\* ChatRoom.handleTextareaKeyDown, Escape while the dropdown is open
EscapeKey ==
    /\ currentRoom # NoRoom
    /\ mentionState.isOpen
    /\ mentionState' = closeMentions
    /\ UNCHANGED <<clientVars, asyncVars, dbVars, eventVars, chatInput, presence, replyCall>>

JoinSteps(J, loads) ==
    \/ \E j \in J, r \in RoomIds, ok \in BOOLEAN : HandleJoinRoom(j, r, ok)
    \/ \E j \in J, ok \in BOOLEAN : JoinRoomSelect(j, ok)
    \/ \E j \in J, ok \in loads : JoinLoadParticipants(j, ok)
    \/ \E j \in J, ok \in loads : JoinLoadSettings(j, ok)
    \/ \E j \in J, ok \in loads : JoinLoadMessages(j, ok)
    \/ \E j \in J : JoinPublish(j)

SendSteps(S, C) ==
    \/ \E s \in S, content \in C : HandleSendMessage(s, content)
    \/ \E s \in S : GatewayInsert(s)
    \/ \E s \in S : SendFail(s)
    \/ \E s \in S : SendReconcile(s)

AISteps ==
    \/ \E t \in SendIds : AITimeout(t)
    \/ \E s \in SendIds, outcome \in {"ok", "unavailable", "throw"} : AIProbe(s, outcome)
    \/ \E s \in SendIds : AIGenerate(s)
    \/ \E s \in SendIds, ok \in BOOLEAN : AIInsert(s, ok)
    \/ \E s \in SendIds, ok \in BOOLEAN : AIInsertPlain(s, ok)

ParticipantsReloadSteps(loads) ==
    \E q \in reloads, ok \in loads : \E p \in q.participants : ParticipantsReloadReturn(q, p, ok)

SettingsReloadSteps(loads) ==
    \E q \in reloads, ok \in loads : \E m \in q.muted : SettingsReloadReturn(q, m, ok)

(***************************************************************************)
(* Spec: one room session.  The user joins a room once, sends up to        *)
(* MaxSends messages (each may start an AI turn), may leave; the other     *)
(* participant sends a message; the message insert, the join and the AI    *)
(* Responder may fail, the loads of joinRoom and of the handlers answer.   *)
(***************************************************************************)
SessionJoins == 1
Answered == {TRUE}      \* outcomes of the loads: they answer without an error

Next ==
    \/ JoinSteps(1..SessionJoins, Answered)
    \/ LeaveRoom
    \/ SendSteps(SendIds, Contents)
    \/ AISteps
    \/ MessageEvent
    \/ ParticipantsReloadSteps(Answered)
    \/ \E r \in RoomIds : OtherSend(r)

Spec == Init /\ [][Next]_vars

(***************************************************************************)
(* SpecRooms: changes of the current room.  Up to MaxJoins joinRoom calls, *)
(* a createRoom, leaveRoom, a change of the auth user object, the rooms    *)
(* list load, one sendMessage that mentions the AI and its AI turn, the    *)
(* message events and the presence timer.                                  *)
(***************************************************************************)
RoomsSends == 1
MentionContents == {StrAICanYouHelp}

NextRooms ==
    \/ JoinSteps(JoinIds, Answered)
    \/ LeaveRoom
    \/ \E ok \in BOOLEAN : HandleCreateRoom(ok)
    \/ AuthStateChange
    \/ \E outcome \in {"ok", "error"} : LoadRoomsReturn(outcome)
    \/ SendSteps(1..RoomsSends, MentionContents)
    \/ AISteps
    \/ MessageEvent
    \/ PresenceTick
    \/ ParticipantsReloadSteps(Answered)

SpecRooms == Init /\ [][NextRooms]_vars

\* the gateway answers the calls of a joinRoom in flight
JoinAnswers(j) ==
    \/ \E ok \in BOOLEAN : JoinRoomSelect(j, ok)
    \/ \E ok \in Answered : JoinLoadParticipants(j, ok)
    \/ \E ok \in Answered : JoinLoadSettings(j, ok)
    \/ \E ok \in Answered : JoinLoadMessages(j, ok)
    \/ JoinPublish(j)

\* the gateway and the AI Responder answer the calls of a sendMessage in flight and
\* the 1.5 s delay of its AI turn elapses
SendAnswers(s) ==
    \/ GatewayInsert(s)
    \/ SendFail(s)
    \/ SendReconcile(s)
    \/ \E outcome \in {"ok", "unavailable", "throw"} : AIProbe(s, outcome)
    \/ AIGenerate(s)
    \/ \E ok \in BOOLEAN : AIInsert(s, ok)
    \/ \E ok \in BOOLEAN : AIInsertPlain(s, ok)

\* timers fire, gateway calls return and change events are delivered; the user's own
\* operations and the auth events are under no obligation to happen
Fairness ==
    /\ \A j \in JoinIds : WF_vars(JoinAnswers(j))
    /\ \A s \in SendIds : WF_vars(SendAnswers(s))
    /\ \A t \in SendIds : WF_vars(AITimeout(t))
    /\ WF_vars(MessageEvent)
    /\ WF_vars(PresenceTick)
    /\ WF_vars(ParticipantsReloadSteps(Answered))
    /\ WF_vars(\E outcome \in {"ok", "error"} : LoadRoomsReturn(outcome))

SpecRoomsFair == Init /\ [][NextRooms]_vars /\ Fairness

(***************************************************************************)
(* SpecLoad: joinRoom into a room with a long history.  Room r1 holds up   *)
(* to ManyMessages messages when the session starts; the user joins and    *)
(* leaves.                                                                 *)
(***************************************************************************)
ManyMessages == 102

\* n messages sent to the room, one per tick of the gateway clock
History(roomId, n) ==
    [i \in 1..n |-> Message(DurableId(i), roomId, IF i % 2 = 1 THEN Me ELSE Other,
                            StrNotSure, FALSE, i, NoReply)]

InitLoad ==
    /\ InitSession
    /\ replyCall = NoCall
    /\ \E n \in 0..ManyMessages :
           /\ dbMessages = [r \in RoomIds |-> IF r = "r1" THEN History(r, n) ELSE << >>]
           /\ clock = n

NextLoad ==
    \/ JoinSteps(1..SessionJoins, Answered)
    \/ LeaveRoom

SpecLoad == InitLoad /\ [][NextLoad]_vars

(***************************************************************************)
(* SpecAI: one AI turn and the AI Responder.  The user joins a room, sends *)
(* a message that mentions the AI and may leave; the completions endpoint  *)
(* does to the probe and to the generation whatever it can do, the         *)
(* callback may throw, the insertion with reply metadata may fail; the     *)
(* insertions without reply metadata answer.                               *)
(***************************************************************************)
NextAI ==
    \/ JoinSteps(1..SessionJoins, Answered)
    \/ LeaveRoom
    \/ SendSteps(1..RoomsSends, MentionContents)
    \/ \E t \in SendIds : AITimeout(t)
    \/ \E s \in SendIds, outcome \in Outcomes : AIProbeAnswer(s, outcome)
    \/ \E s \in SendIds : AIProbe(s, "throw")
    \/ \E s \in SendIds, outcome \in Outcomes : AIGenerateWith(s, outcome)
    \/ \E s \in SendIds, ok \in BOOLEAN : AIInsert(s, ok)
    \/ \E s \in SendIds, ok \in Answered : AIInsertPlain(s, ok)
    \/ MessageEvent
    \/ ParticipantsReloadSteps(Answered)

\* the gateway and the AI Responder answer the calls of a sendMessage in flight and of
\* its AI turn, and the 1.5 s delay of the turn elapses
TurnAnswers(s) ==
    \/ GatewayInsert(s)
    \/ SendFail(s)
    \/ SendReconcile(s)
    \/ \E outcome \in Outcomes : AIProbeAnswer(s, outcome)
    \/ AIProbe(s, "throw")
    \/ \E outcome \in Outcomes : AIGenerateWith(s, outcome)
    \/ \E ok \in BOOLEAN : AIInsert(s, ok)
    \/ \E ok \in Answered : AIInsertPlain(s, ok)

FairnessAI ==
    /\ \A j \in JoinIds : WF_vars(JoinAnswers(j))
    /\ \A s \in SendIds : WF_vars(TurnAnswers(s))
    /\ \A t \in SendIds : WF_vars(AITimeout(t))
    /\ WF_vars(MessageEvent)
    /\ WF_vars(ParticipantsReloadSteps(Answered))

SpecAI == Init /\ [][NextAI]_vars /\ FairnessAI

(***************************************************************************)
(* SpecSettings: the operations on a room and their failures.  The user    *)
(* joins or creates a room, sends a message, toggles the AI mute state and *)
(* may leave; the other participant joins; each gateway call may fail; the *)
(* change events of the three channels are handled.                        *)
(***************************************************************************)
PlainContents == {StrNotSure}

NextSettings ==
    \/ JoinSteps(1..SessionJoins, Answered)
    \/ LeaveRoom
    \/ \E ok \in BOOLEAN : HandleCreateRoom(ok)
    \/ SendSteps(1..RoomsSends, PlainContents)
    \/ \E ok \in BOOLEAN : ToggleAIMute(ok)
    \/ \E r \in RoomIds : OtherJoin(r)
    \/ MessageEvent
    \/ ParticipantsEvent
    \/ SettingsEvent
    \/ ParticipantsReloadSteps(Answered)
    \/ SettingsReloadSteps(Answered)

SpecSettings == Init /\ [][NextSettings]_vars

(***************************************************************************)
(* SpecMentions: the message input.  The user joins a room and edits the   *)
(* text of the input: after each change the textarea holds one of Texts    *)
(* and the cursor is anywhere in it.                                       *)
(***************************************************************************)
Texts == {<<"h","i"," ","@","a","l">>,
          <<"h","i"," ","@","a","l"," ","i","c","e">>,
          <<"@","A","I"," ","p","l","e","a","s","e"," ","h","e","l","p">>,
          <<"a","@","b">>,
          <<"@","x","@","y">>,
          <<"x","\t","@","y"," ","@">>,
          <<"@">>}

MaxCursor == 15

NextMentions ==
    \/ JoinSteps(1..SessionJoins, Answered)
    \/ LeaveRoom
    \/ \E value \in Texts, cursor \in 0..MaxCursor : HandleTextareaChange(value, cursor)
    \/ EscapeKey

SpecMentions == Init /\ [][NextMentions]_vars

(***************************************************************************)
(* SpecPresence: the presence of the participants of a room.  The messages *)
(* table holds up to two rows of room r1, of either participant, flagged   *)
(* is_ai or not, created a little more than, exactly or less than ten      *)
(* minutes before the session starts; the participants are loaded with     *)
(* their presence, seconds pass, the other participant sends a message.    *)
(***************************************************************************)
SessionStart == 2 * PresenceWindow

PastTimes == {SessionStart - PresenceWindow - 1, SessionStart - PresenceWindow,
              SessionStart - PresenceWindow + 60}

PastRows ==
    {<< >>}
    \cup {<<Message(DurableId(1), "r1", u, StrNotSure, a, t, NoReply)>> :
              u \in {Me, Other}, a \in BOOLEAN, t \in PastTimes}
    \cup {<<Message(DurableId(1), "r1", u[1], StrNotSure, a[1], t[1], NoReply),
             Message(DurableId(2), "r1", u[2], StrNotSure, a[2], t[2], NoReply)>> :
              u \in {Me, Other} \X {Me, Other}, a \in BOOLEAN \X BOOLEAN,
              t \in {x \in PastTimes \X PastTimes : x[1] <= x[2]}}

InitPresence ==
    /\ InitSession
    /\ replyCall = NoCall
    /\ clock = SessionStart
    /\ \E rows \in PastRows :
           dbMessages = [r \in RoomIds |-> IF r = "r1" THEN rows ELSE << >>]

NextPresence ==
    \/ \E r \in RoomIds : LoadPresence(r)
    \/ Tick
    \/ \E r \in RoomIds : OtherSend(r)

SpecPresence == InitPresence /\ [][NextPresence]_vars

(***************************************************************************)
(* SpecJoins: requests to join while a join is under way.  Up to MaxJoins  *)
(* requests to join a room, each made while the room list is shown; the    *)
(* user may leave the room.                                                *)
(***************************************************************************)
NextJoins ==
    \/ JoinSteps(JoinIds, BOOLEAN)
    \/ \E j \in JoinIds, r \in RoomIds : HandleJoinRoomBusy(j, r)
    \/ LeaveRoom

SpecJoins == Init /\ [][NextJoins]_vars

(***************************************************************************)
(* SpecEvents: the message events of a room.  The user joins a room and    *)
(* sends a message that mentions the AI; the AI turn of the other          *)
(* participant's client persists a message of its own; the realtime        *)
(* service may deliver the event of a row the list already holds again.    *)
(***************************************************************************)
MaxRows == 4

NextEvents ==
    \/ JoinSteps(1..SessionJoins, Answered)
    \/ LeaveRoom
    \/ SendSteps(1..RoomsSends, MentionContents)
    \/ AISteps
    \/ MessageEvent
    \/ ParticipantsReloadSteps(Answered)
    \/ \E r \in RoomIds : OtherAITurn(r)
    \/ \E i \in 1..MaxRows : Redeliver(i)

SpecEvents == Init /\ [][NextEvents]_vars

(***************************************************************************)
(* SpecHistory: the context of an AI turn.  Room r1 holds up to MaxHistory *)
(* messages when the session starts, every third one AI-authored; the user *)
(* joins and sends messages that mention the AI, so that a turn may build  *)
(* its context while the next message is still provisional.                *)
(***************************************************************************)
MaxHistory == 11

\* n messages of the room, one per tick of the gateway clock
Conversation(roomId, n) ==
    [i \in 1..n |->
        IF i % 3 = 0
        THEN Message(DurableId(i), roomId, AIUser, StrAIReply, TRUE, i, NoReply)
        ELSE Message(DurableId(i), roomId, IF i % 3 = 1 THEN Me ELSE Other,
                     StrNotSure, FALSE, i, NoReply)]

InitHistory ==
    /\ InitSession
    /\ replyCall = NoCall
    /\ \E n \in 0..MaxHistory :
           /\ dbMessages = [r \in RoomIds |-> IF r = "r1" THEN Conversation(r, n) ELSE << >>]
           /\ clock = n

NextHistory ==
    \/ JoinSteps(1..SessionJoins, Answered)
    \/ SendSteps(SendIds, MentionContents)
    \/ AISteps
    \/ MessageEvent
    \/ ParticipantsReloadSteps(Answered)

SpecHistory == InitHistory /\ [][NextHistory]_vars

(***************************************************************************)
(* SpecReply: findReplyTarget.  The function is called once, with a        *)
(* content that mentions the AI or not and a list of up to MaxReplyList    *)
(* messages, each AI-authored or not, with or without a question mark or   *)
(* a keyword in either case.                                               *)
(***************************************************************************)
MaxReplyList == 3

ReplyTexts == {StrNotSure, StrPlan, StrAIReply,
               <<"r","e","a","l","l","y","?">>,
               <<"H","E","L","P"," ","m","e">>,
               <<"C","o","u","l","d"," ","y","o","u"," ","c","o","m","e">>}

\* the lists of n messages of room r1, in the order of their ids
ReplyLists(n) ==
    {[i \in 1..n |-> Message(DurableId(i), "r1", IF a[i] THEN AIUser ELSE Other, t[i],
                             a[i], i, NoReply)] :
         a \in [1..n -> BOOLEAN], t \in [1..n -> ReplyTexts]}

InitReply ==
    /\ InitSession
    /\ dbMessages = InitialMessages
    /\ clock = 2
    /\ \E content \in Contents, n \in 0..MaxReplyList :
           \E messages \in ReplyLists(n) :
               replyCall = [NoCall EXCEPT !.content = content, !.messages = messages]

NextReply == CallFindReplyTarget

SpecReply == InitReply /\ [][NextReply]_vars

(***************************************************************************)
(* SpecFailures: failures of the loads and of the decoding.  The user      *)
(* joins a room, toggles the AI mute state and sends a message that        *)
(* mentions the AI; the other participant sends a message, another writer  *)
(* persists a message with an undecodable reply context; each load of      *)
(* joinRoom and of the handlers may fail.                                  *)
(***************************************************************************)
NextFailures ==
    \/ JoinSteps(1..SessionJoins, BOOLEAN)
    \/ SendSteps(1..RoomsSends, MentionContents)
    \/ \E ok \in BOOLEAN : ToggleAIMute(ok)
    \/ \E r \in RoomIds : OtherSend(r)
    \/ \E r \in RoomIds : ForeignInsert(r)
    \/ MessageEvent
    \/ SettingsEvent
    \/ ParticipantsReloadSteps(BOOLEAN)
    \/ SettingsReloadSteps(BOOLEAN)

SpecFailures == Init /\ [][NextFailures]_vars

(***************************************************************************)
(* SpecToggles: the user joins a room and toggles the AI mute, the other   *)
(* participant toggles it too; the settings handler reloads the settings   *)
(* on every change, every load answers, in any order; the user sends a     *)
(* message that mentions the AI.                                           *)
(***************************************************************************)
NextToggles ==
    \/ JoinSteps(1..SessionJoins, Answered)
    \/ SendSteps(1..RoomsSends, MentionContents)
    \/ MessageEvent
    \/ ToggleAIMute(TRUE)
    \/ \E r \in RoomIds : OtherToggle(r)
    \/ SettingsEvent
    \/ SettingsReloadSteps(Answered)

SpecToggles == Init /\ [][NextToggles]_vars

(***************************************************************************)
(* SpecLate: the user changes rooms (joins, leaves, creates a room, signs  *)
(* out) while the handlers of the channels and the presence interval have  *)
(* reloads in flight; both participants send messages and toggle the AI    *)
(* mute; every load answers.                                               *)
(***************************************************************************)
NextLate ==
    \/ JoinSteps(JoinIds, Answered)
    \/ LeaveRoom
    \/ \E ok \in BOOLEAN : HandleCreateRoom(ok)
    \/ AuthStateChange
    \/ ToggleAIMute(TRUE)
    \/ \E r \in RoomIds : OtherSend(r)
    \/ \E r \in RoomIds : OtherToggle(r)
    \/ MessageEvent
    \/ SettingsEvent
    \/ PresenceTick
    \/ ParticipantsReloadSteps(Answered)
    \/ SettingsReloadSteps(Answered)

SpecLate == Init /\ [][NextLate]_vars

(***************************************************************************)
(* Properties.                                                             *)
(***************************************************************************)
\* the number of entries of a message list that carry the id
CountId(messages, id) == Cardinality({i \in 1..Len(messages) : messages[i].id = id})

\* the INSERT event of the message with the id is yet to be handled
EventInFlight(id) == \E i \in 1..Len(msgEvents) : msgEvents[i].id = id

\* sendMessage s has returned normally
Succeeded(s) == sends[s].result = "ok"

\* the room sendMessage s was called in is the current room
InRoomOf(s) == currentRoom # NoRoom /\ currentRoom.id = sends[s].room

\* C1: for a sendMessage that succeeds, once both the reconciliation by the call and
\* the INSERT event with the same durable id have been handled, in whichever order,
\* the local list holds exactly one entry with the durable id and none with the
\* provisional id.
C1_ExactlyOnce ==
    \A s \in SendIds :
        (Succeeded(s) /\ InRoomOf(s) /\ ~EventInFlight(sends[s].durable))
            => /\ CountId(currentRoom.messages, sends[s].durable) = 1
               /\ CountId(currentRoom.messages, TempId(s)) = 0

\* the step removes the provisional entry of sendMessage s from the local list and
\* changes nothing else of the current room
OnlyProvisionalRemoved(s) ==
    IF currentRoom = NoRoom THEN currentRoom' = NoRoom
    ELSE LET before == currentRoom.messages
             after == currentRoom'.messages
         IN  /\ currentRoom' = [currentRoom EXCEPT !.messages = after]
             /\ CountId(after, TempId(s)) = 0
             /\ \/ CountId(before, TempId(s)) = 0 /\ after = before
                \/ \E k \in 1..Len(before) :
                       /\ before[k].id = TempId(s)
                       /\ after = SubSeq(before, 1, k - 1) \o SubSeq(before, k + 1, Len(before))

\* C2: when the insert of sendMessage fails, the step that handles the failure removes
\* the provisional message from the local list, leaves every other message and every
\* other field of the current room as it was, and the call ends with the error.
C2_RollbackOnFailure ==
    [][\A s \in SendIds :
          (sends[s].pc = "inserting" /\ sends'[s].pc = "failed")
              => (sends'[s].result = "error" /\ OnlyProvisionalRemoved(s))]_vars

\* a sendMessage has failed in a room whose list holds a message that the other
\* participant sent during the session
C2_Witness ==
    \E s \in SendIds :
        /\ sends[s].pc = "failed"
        /\ InRoomOf(s)
        /\ \E i \in 1..Len(currentRoom.messages) :
               currentRoom.messages[i].userId = Other /\ currentRoom.messages[i].timestamp > 2

\* the rows of the messages table that the AI wrote
AIRows(roomId) == {i \in 1..Len(dbMessages[roomId]) : dbMessages[roomId][i].isAI}

\* sendMessage s was called with the AI muted and a content that mentions the AI
MutedMention(s) == sends[s].pc # "idle" /\ sends[s].muted /\ MentionsAI(sends[s].content)

\* C3: a message that mentions "@ai", in any letter case, sent while the AI is muted
\* for the room is persisted as an ordinary message and starts no AI turn: the call
\* does not arm the safeguard timeout, probes and asks the AI Responder for nothing,
\* ends without an error once the insert has succeeded, and while every message of
\* the session was sent muted the session is never AIPending and no AI message is
\* stored.
C3_MutedMentionNoAITurn ==
    /\ \A s \in SendIds :
           MutedMention(s) =>
               /\ sends[s].pc \in {"inserting", "inserted", "failed", "done"}
               /\ s \notin aiTimers
               /\ aiResponseTimeoutRef # s
               /\ sends[s].aiText = << >>
               /\ sends[s].pc = "done" =>
                      /\ sends[s].result = "ok"
                      /\ \E i \in 1..Len(dbMessages[sends[s].room]) :
                             LET row == dbMessages[sends[s].room][i]
                             IN  /\ row.id = sends[s].durable
                                 /\ row.content = sends[s].content
                                 /\ row.userId = Me
                                 /\ ~row.isAI
    /\ (\A s \in SendIds : sends[s].pc # "idle" => sends[s].muted) =>
           /\ ~isAIResponding
           /\ \A r \in RoomIds : AIRows(r) = {}

\* a lower-case mention sent in the muted room has been persisted and the call is over
C3_Witness ==
    \E s \in SendIds :
        /\ MutedMention(s)
        /\ sends[s].content = StrAiHello
        /\ sends[s].pc = "done"
        /\ InRoomOf(s)
        /\ CountId(currentRoom.messages, sends[s].durable) = 1

\* the most recent entry of a message list that the AI did not write, NoId if none
LastNonAI(messages) ==
    LET nonAI == {i \in 1..Len(messages) : ~messages[i].isAI}
    IN  IF nonAI = {} THEN NoId
        ELSE messages[CHOOSE i \in nonAI : \A k \in nonAI : k <= i].id

\* the most recent entry before the entry with the id that the AI did not write
LastNonAIBefore(messages, id) ==
    LET at == CHOOSE i \in 1..Len(messages) : messages[i].id = id
    IN  LastNonAI(SubSeq(messages, 1, at - 1))

\* the AI turn of sendMessage s has computed its reply target
TargetComputed(s) == sends[s].pc = "aiInsert"

\* C4 as stated: for a message that mentions the AI, the reply target is the most
\* recent non-AI message that precedes the triggering message.
C4_TargetPrecedesTrigger ==
    \A s \in SendIds :
        (TargetComputed(s) /\ CountId(sends[s].seen, sends[s].durable) = 1)
            => sends[s].target = LastNonAIBefore(sends[s].seen, sends[s].durable)

\* C4 amended: for a message that mentions the AI, the reply target is the most recent
\* non-AI message of the local list at the moment the AI turn computes it, and no
\* target if the list holds none; the triggering message is itself a candidate, so
\* when nothing has followed it in the list the target is the triggering message.
C4_TargetIsLastNonAI ==
    \A s \in SendIds :
        TargetComputed(s) =>
            /\ sends[s].target = LastNonAI(sends[s].seen)
            /\ sends[s].reply = IF sends[s].target = NoId THEN NoReply
                                ELSE LET m == MessageById(sends[s].seen, sends[s].target)
                                     IN  [userId |-> m.userId, content |-> Excerpt(m.content)]
            /\ (/\ sends[s].seen # << >>
                /\ sends[s].seen[Len(sends[s].seen)].id = sends[s].durable)
                   => sends[s].target = sends[s].durable

\* the worked example: the list is userA "what's the plan?", userB "not sure",
\* userA "@AI can you help?", and the target is the third message
C4_Witness ==
    \E s \in SendIds :
        /\ TargetComputed(s)
        /\ Len(sends[s].seen) = 3
        /\ sends[s].seen[1].userId = Me /\ sends[s].seen[1].content = StrPlan
        /\ sends[s].seen[2].userId = Other /\ sends[s].seen[2].content = StrNotSure
        /\ sends[s].seen[3].userId = Me /\ sends[s].seen[3].content = StrAICanYouHelp
        /\ sends[s].seen[3].id = sends[s].durable
        /\ sends[s].target = sends[s].durable
        /\ sends[s].reply.userId = Me

\* the n newest rows of a table, oldest of them first
Newest(rows, n) ==
    LET sorted == OrderByCreatedAt(rows)
    IN  SubSeq(sorted, IF Len(sorted) > n THEN Len(sorted) - n + 1 ELSE 1, Len(sorted))

\* C5: the room that joinRoom publishes holds the MessageLimit most recent messages of
\* the room in ascending time order, also when storage holds more than that; nothing
\* is sent in SpecLoad, so the list stays what joinRoom loaded.
C5_LoadsNewest ==
    currentRoom # NoRoom =>
        currentRoom.messages = Newest(dbMessages[currentRoom.id], MessageLimit)

\* the client state that a joinRoom call may only change by publishing the room
PublishedState == <<currentRoom, currentRoomRef, rooms, subscriptionVars>>

\* C6: a joinRoom that fails (no user, the join rejected, or the room id not resolving)
\* publishes nothing: every step of a joinRoom call other than the final publishing
\* step, the failing steps among them, leaves the current room, the room list, the
\* three subscriptions and the presence timer as they were, and a call that has failed
\* takes no further step.
C6_FailedJoinPublishesNothing ==
    [][\A j \in JoinIds :
          /\ (joins'[j] # joins[j] /\ joins'[j].pc # "done") => UNCHANGED PublishedState
          /\ joins[j].pc = "failed" => joins'[j] = joins[j]]_vars

\* the join into r2 was accepted, the room id then did not resolve, and meanwhile a
\* room was created: it is still current and subscribed
C6_Witness ==
    /\ joins[1].pc = "failed"
    /\ Me \in dbParticipants["r2"]
    /\ joins[2].pc = "idle"
    /\ currentRoom # NoRoom
    /\ messagesChannelRef = currentRoom.id
    /\ presenceUpdateInterval = currentRoom.id

\* C7: a room is current exactly when the message, participant and settings
\* subscriptions of that room and its presence timer are live.
C7_CurrentIffSubscribed ==
    LET live == IF currentRoom = NoRoom THEN NoChannel ELSE currentRoom.id
    IN  /\ messagesChannelRef = live
        /\ participantsChannelRef = live
        /\ settingsChannelRef = live
        /\ presenceUpdateInterval = live

\* subscriptions and presence timer released, no safeguard timeout armed, AIIdle
Released ==
    /\ messagesChannelRef = NoChannel
    /\ participantsChannelRef = NoChannel
    /\ settingsChannelRef = NoChannel
    /\ presenceUpdateInterval = NoChannel
    /\ aiResponseTimeoutRef = NoTimer
    /\ aiTimers = {}
    /\ ~isAIResponding

\* C8: a leaveRoom with a room current ends with no room current, the subscriptions
\* and the presence timer released, the AI safeguard timeout cancelled and the session
\* AIIdle; a leaveRoom with no room current changes nothing.
C8_LeaveReleases ==
    [][LeaveRoom => IF currentRoom = NoRoom
                    THEN UNCHANGED vars
                    ELSE currentRoom' = NoRoom /\ currentRoomRef' = NoRoom /\ Released']_vars

\* the room was left while the AI turn of a message was waiting for its delay
C8_Witness ==
    \E s \in SendIds :
        /\ sends[s].pc = "aiDelay"
        /\ currentRoom = NoRoom
        /\ Released

\* C9: whenever the session is AIPending it is AIIdle again later, given that timers
\* fire, gateway calls return and events are delivered.
C9_PendingEnds == isAIResponding ~> ~isAIResponding

\* C10: every step that changes which room is current (leaveRoom, a joinRoom that
\* publishes a different room, createRoom) ends AIIdle with no safeguard timeout armed.
C10_RoomChangeEndsIdle ==
    [][currentRoom'.id # currentRoom.id
          => (~isAIResponding' /\ aiTimers' = {} /\ aiResponseTimeoutRef' = NoTimer)]_vars

\* the AI turn of send s has persisted an AI-authored message in the room of the mention
TurnAnswered(s) ==
    \E i \in 1..Len(dbMessages[sends[s].room]) :
        LET row == dbMessages[sends[s].room][i]
        IN  /\ row.isAI
            /\ row.userId = AIUser
            /\ row.timestamp > sends[s].durable[2]
            /\ row.content # << >>

ExpectedResponse(outcome) ==
    CASE outcome.kind = "completion" /\ outcome.content = StrAIReply -> StrAIReply
      [] outcome.kind = "completion" /\ outcome.content = << >> -> StrApology
      [] outcome.kind = "pending" -> StrTimeoutFallback
      [] outcome.kind = "rejected" /\ ~outcome.isError -> StrGenericFallback
      [] outcome.kind = "rejected" /\ outcome.isError ->
             CASE outcome.message = MsgTimeout -> StrTimeoutFallback
               [] outcome.message = MsgFetch -> StrNetworkFallback
               [] outcome.message = MsgNetwork -> StrNetworkFallback
               [] outcome.message = Msg401 -> StrAuthFallback
               [] outcome.message = Msg500 -> StrGenericFallback

\* C12: whatever the completions endpoint does, generateResponse resolves to a non-empty
\* string: the completion text, the apology for an empty completion, the timeout
\* fallback when the call stays pending, the network and the authentication fallbacks
\* for their errors and the generic fallback for everything else; testConnection
\* resolves to a boolean, true exactly for a completion with a text, and the turn goes
\* on to the generation exactly when it is true.
C12_GenerateAlwaysAnswers ==
    \A s \in SendIds :
        /\ sends[s].completion # NoOutcome =>
               /\ sends[s].pc \in {"aiInsert", "aiPlain", "done"}
               /\ generateResponse(sends[s].completion) # << >>
               /\ generateResponse(sends[s].completion) = ExpectedResponse(sends[s].completion)
               /\ sends[s].pc = "aiInsert" =>
                      sends[s].aiText = ExpectedResponse(sends[s].completion)
        /\ sends[s].probed # NoOutcome =>
               /\ testConnection(sends[s].probed) \in BOOLEAN
               /\ testConnection(sends[s].probed) <=> sends[s].probed = Completed
               /\ testConnection(sends[s].probed) <=>
                      (sends[s].pc = "generating" \/ sends[s].completion # NoOutcome)

\* the generation stayed pending and the insertion carries the timeout fallback
C12_Witness ==
    \E s \in SendIds :
        /\ sends[s].pc = "aiInsert"
        /\ sends[s].completion = Pending
        /\ sends[s].aiText = StrTimeoutFallback
        /\ sends[s].probed = Completed

\* C13: when the gateway call of joinRoom, createRoom, toggleAIMute or sendMessage
\* fails, the operation reports an explicit failure to its caller (joinRoom resolves to
\* false, the others raise an error); none of them completes as if it had succeeded.
C13_FailuresReported ==
    /\ \A j \in JoinIds : joins[j].pc = "failed" => joins[j].result = "false"
    /\ \A s \in SendIds : sends[s].pc = "failed" => sends[s].result = "error"
    /\ \A i \in 1..Len(creates) : creates[i].gateway = "error" => creates[i].result = "thrown"
    /\ \A i \in 1..Len(toggles) : toggles[i].gateway = "error" => toggles[i].result = "thrown"

\* send s went into the room createRoom has just made: nobody else has joined it, the
\* mute state was not toggled, no joinRoom is under way and no change event is in flight
SentIntoCreatedRoom(s) ==
    /\ Len(creates) = 1
    /\ creates[1].result = "returned"
    /\ sends[s].pc = "done"
    /\ sends[s].room \in CreatedRooms
    /\ currentRoom # NoRoom
    /\ currentRoom.id = sends[s].room
    /\ dbParticipants[sends[s].room] = {Me}
    /\ toggles = << >>
    /\ \A j \in JoinIds : joins[j].pc \in {"idle", "failed"}
    /\ msgEvents = << >>
    /\ reloads = {}

\* C14: after createRoom and one sendMessage into the new room, the current room has
\* exactly one participant, the creator, its settings are unmuted and it holds exactly
\* one message, which is durable and authored by the creator.
C14_CreateThenSend ==
    \A s \in SendIds :
        SentIntoCreatedRoom(s) =>
            /\ currentRoom.participants = {Me}
            /\ ~currentRoom.settings.isAIMuted
            /\ Len(currentRoom.messages) = 1
            /\ currentRoom.messages[1].id = sends[s].durable
            /\ currentRoom.messages[1].userId = Me

\* the '@' of the mention the cursor is in: it starts the text or follows a whitespace
\* character, and no whitespace character lies between it and the cursor
MentionAt(text, cursor) ==
    {k \in 0..(cursor - 1) :
        /\ text[k + 1] = "@"
        /\ k = 0 \/ IsWhitespace(text[k])
        /\ \A i \in (k + 1)..(cursor - 1) : ~IsWhitespace(text[i + 1])}

\* C15: after a change of the input, the mention trigger is active exactly when an '@'
\* that starts the text or follows whitespace is reached from the cursor backward before
\* any whitespace character; the query is then the text between that '@' and the cursor.
\* Otherwise the trigger is closed and the rest of the mention state stays as it was.
C15_DetectMention ==
    [][\A value \in Texts, cursor \in 0..MaxCursor :
           HandleTextareaChange(value, cursor) =>
               /\ mentionState'.isOpen <=> MentionAt(value, cursor) # {}
               /\ mentionState'.isOpen =>
                      /\ MentionAt(value, cursor) = {mentionState'.mentionStart}
                      /\ mentionState'.query =
                             SubSeq(value, mentionState'.mentionStart + 2, cursor)
               /\ ~mentionState'.isOpen =>
                      /\ mentionState'.query = mentionState.query
                      /\ mentionState'.mentionStart = mentionState.mentionStart]_vars

\* ("hi @al", 6) has set the trigger active with the query "al"
C15_Witness ==
    /\ chatInput = [value |-> <<"h","i"," ","@","a","l">>, cursor |-> 6]
    /\ mentionState = [isOpen |-> TRUE, query |-> <<"a","l">>, mentionStart |-> 3]

\* userId has sent a message to the room, not flagged as the AI's, less than ten
\* minutes before now
RecentlyActive(roomId, userId, now) ==
    \E i \in 1..Len(dbMessages[roomId]) :
        /\ dbMessages[roomId][i].userId = userId
        /\ ~dbMessages[roomId][i].isAI
        /\ now - dbMessages[roomId][i].timestamp < PresenceWindow

\* C16: a load of the participants classifies each participant of the room, and
\* classifies it online if and only if its most recent message in the room that is not
\* the AI's is less than ten minutes old at the time of the load; a participant with no
\* such message is offline, and messages flagged as the AI's do not count.
C16_OnlineIffRecent ==
    [][\A r \in RoomIds :
           LoadPresence(r) =>
               /\ {p.userId : p \in presence'.rows} = dbParticipants[r]
               /\ \A p \in presence'.rows :
                      p.isOnline <=> RecentlyActive(r, p.userId, clock)]_vars

\* the last message of userB is ten minutes and a second old and the one of userA nine
\* minutes: userB is offline, userA online
C16_Witness ==
    /\ clock = SessionStart
    /\ Len(dbMessages["r1"]) = 2
    /\ dbMessages["r1"][1].userId = Other /\ ~dbMessages["r1"][1].isAI
    /\ dbMessages["r1"][1].timestamp = clock - PresenceWindow - 1
    /\ dbMessages["r1"][2].userId = Me /\ ~dbMessages["r1"][2].isAI
    /\ dbMessages["r1"][2].timestamp = clock - PresenceWindow + 60
    /\ presence = [room |-> "r1", rows |-> {[userId |-> Me, isOnline |-> TRUE],
                                            [userId |-> Other, isOnline |-> FALSE]}]

\* the joinRoom calls that are under way
JoinsInFlight == {j \in JoinIds : joins[j].pc \notin {"idle", "failed", "done", "ignored"}}

\* the realtime client holds one channel per topic and one interval for roomId
SubscribedOnce(roomId) ==
    /\ \A topic \in Topics : realtimeClient.channels[<<topic, roomId>>] = 1
    /\ realtimeClient.intervals[roomId] = 1
    /\ messagesChannelRef = roomId
    /\ participantsChannelRef = roomId
    /\ settingsChannelRef = roomId
    /\ presenceUpdateInterval = roomId

C18_MessagesOrdered ==
    currentRoom # NoRoom =>
        \A i, k \in 1..Len(currentRoom.messages) :
            i < k => currentRoom.messages[i].timestamp <= currentRoom.messages[k].timestamp

\* C19: whenever an AI message is persisted with a replyingTo, the message it refers
\* to (its author and the excerpt of its content) is a message of the same room that
\* was in the room's timeline before the AI message, whatever room was current when
\* the AI turn computed its reply target.
C19_ReplyTargetInRoom ==
    \A r \in RoomIds :
        \A i \in 1..Len(dbMessages[r]) :
            (dbMessages[r][i].isAI /\ dbMessages[r][i].replyingTo # NoReply) =>
                \E k \in 1..(i - 1) :
                    /\ dbMessages[r][k].roomId = r
                    /\ dbMessages[r][k].userId = dbMessages[r][i].replyingTo.userId
                    /\ Excerpt(dbMessages[r][k].content) = dbMessages[r][i].replyingTo.content

\* C20: when the handler of the messages channel takes the INSERT event of an
\* AI-authored message, AIPending is cleared and the safeguard timeout is cancelled,
\* whether the message is of the turn this client triggered or of another client's, and
\* whether or not the list already holds the message.
C20_AIEventClearsPending ==
    [][(MessageEvent /\ Head(msgEvents).isAI) =>
           /\ ~isAIResponding'
           /\ aiResponseTimeoutRef' = NoTimer
           /\ aiTimers' = aiTimers \ {aiResponseTimeoutRef}]_vars

\* the user's mention is waiting for its AI turn, and the next event to handle is the
\* AI message of the other client's turn, which the list already holds
C20_Witness ==
    /\ isAIResponding
    /\ aiResponseTimeoutRef # NoTimer
    /\ aiResponseTimeoutRef \in aiTimers
    /\ currentRoom # NoRoom
    /\ \E s \in SendIds : sends[s].pc = "aiDelay" /\ sends[s].room = currentRoom.id
    /\ msgEvents # << >>
    /\ Head(msgEvents).isAI
    /\ Head(msgEvents).roomId = currentRoom.id
    /\ \E k \in 1..Len(currentRoom.messages) : currentRoom.messages[k].id = Head(msgEvents).id

\* the probe of the turn of send s has been made and testConnection has answered false
ProbeFailed(s) ==
    /\ sends[s].probed # NoOutcome
    /\ ~(sends[s].probed.kind = "completion" /\ sends[s].probed.content # << >>)

\* the messages table holds the unavailable message of the AI identity in the room
UnavailablePersisted(roomId) ==
    \E i \in 1..Len(dbMessages[roomId]) :
        /\ dbMessages[roomId][i].roomId = roomId
        /\ dbMessages[roomId][i].userId = AIUser
        /\ dbMessages[roomId][i].isAI
        /\ dbMessages[roomId][i].content = StrUnavailable
        /\ dbMessages[roomId][i].replyingTo = NoReply

LocalMessagesOf(s) ==
    IF currentRoom # NoRoom /\ currentRoom.id = sends[s].room THEN currentRoom.messages
    ELSE << >>

\* the last n durable messages of a list, oldest first
LastDurable(messages, n) ==
    LET idx == {i \in 1..Len(messages) : ~IsTempId(messages[i].id)}
        window == {i \in idx : Cardinality({k \in idx : k > i}) < n}
    IN  SelectSeq([i \in 1..Len(messages) |-> [at |-> i, m |-> messages[i]]],
                  LAMBDA e : e.at \in window)

\* the step gives the turn of send s the last 10 durable messages of its room as its
\* history, oldest first, with their roles and named contents
HistoryAsSpecified(s) ==
    LET expected == LastDurable(LocalMessagesOf(s), 10)
    IN  /\ Len(sends'[s].history) = Len(expected)
        /\ \A i \in 1..Len(expected) :
               /\ sends'[s].history[i].role =
                      (IF expected[i].m.userId = AIUser THEN "assistant" ELSE "user")
               /\ sends'[s].history[i].content =
                      <<expected[i].m.userId>> \o <<":", " ">> \o expected[i].m.content

\* C22: the history a turn hands to the generation is the last 10 non-provisional
\* messages the room of the mention holds at that moment, oldest first, AI-authored
\* ones as assistant and the others as user, each with the content "<name>: <text>",
\* no provisional message among them, and the completion request carries all of them.
C22_HistoryOfTen ==
    [][\A s \in SendIds :
           (sends[s].pc = "aiDelay" /\ sends'[s].pc = "generating") =>
               /\ HistoryAsSpecified(s)
               /\ completionMessages(sends'[s].history) = sends'[s].history]_vars

\* the history handed to the generation by itself
C22_HistoryBuilt ==
    [][\A s \in SendIds :
           (sends[s].pc = "aiDelay" /\ sends'[s].pc = "generating") =>
               HistoryAsSpecified(s)]_vars

\* the AI turn of send s has made its probe and has not finished persisting
TurnUnderWay(s) == sends[s].pc \in {"generating", "aiInsert", "aiPlain"}

\* C23: while an AI turn this client triggered in a room is under way, no further AI
\* turn of that room makes its probe or calls the generation: a sendMessage that
\* mentions the AI meanwhile starts no second turn.
C23_OneTurnOutstanding ==
    [][\A s \in SendIds :
           (sends[s].pc = "aiDelay" /\ sends'[s].pc # "aiDelay") =>
               ~\E t \in SendIds \ {s} :
                    sends[t].room = sends[s].room /\ TurnUnderWay(t)]_vars

\* the gateway's answer to the insert of send s has been handled
SendAnswered(s) == sends[s].pc \notin {"idle", "inserting", "inserted"}

\* the local list, empty when no room is current
LocalMessages == IF currentRoom = NoRoom THEN << >> ELSE currentRoom.messages

\* C24: a submitted message is in the list under its provisional id at most once and
\* only until the gateway's answer to its insert is handled; from then on, whether it
\* was reconciled or rolled back, neither the list nor the pending set holds the
\* provisional id, and a provisional id enters the list only in the sendMessage call
\* it was made for.
C24_ProvisionalOnce ==
    /\ [](\A s \in SendIds :
              /\ CountId(LocalMessages, TempId(s)) <= 1
              /\ SendAnswered(s) =>
                     /\ CountId(LocalMessages, TempId(s)) = 0
                     /\ TempId(s) \notin pendingMessagesRef
                     /\ sends[s].result \in {"ok", "error"})
    /\ [][\A s \in SendIds :
              (CountId(LocalMessages, TempId(s)) = 0 /\ CountId(LocalMessages', TempId(s)) = 1)
                  => (sends[s].pc = "idle" /\ sends'[s].pc = "inserting")]_vars

\* one send was rolled back and the other reconciled while the user stayed in the room
C24_Witness ==
    /\ currentRoom # NoRoom
    /\ \E s, t \in SendIds :
           /\ sends[s].pc = "failed"
           /\ sends[t].pc = "done"
           /\ sends[t].room = currentRoom.id
           /\ CountId(currentRoom.messages, sends[t].durable) >= 1
    /\ \A i \in 1..Len(currentRoom.messages) : ~IsTempId(currentRoom.messages[i].id)

\* the keywords of a question or a request for help
Keywords == {<<"h","o","w">>, <<"w","h","a","t">>, <<"w","h","y">>, <<"w","h","e","n">>,
             <<"w","h","e","r","e">>, <<"c","a","n"," ","y","o","u">>,
             <<"c","o","u","l","d"," ","y","o","u">>, <<"h","e","l","p">>}

\* the text holds a question mark or, in any case, one of the keywords
LooksLikeQuestion(text) ==
    \/ \E i \in 1..Len(text) : text[i] = "?"
    \/ \E k \in Keywords : \E i \in 0..(Len(text) - Len(k)) :
           \A j \in 1..Len(k) : ToLowerChar(text[i + j]) = k[j]

\* the text holds "@ai" in any case
HoldsAtAI(text) ==
    \E i \in 1..(Len(text) - 2) :
        /\ text[i] = "@"
        /\ text[i + 1] \in {"a", "A"}
        /\ text[i + 2] \in {"i", "I"}

\* the id of the last message of the list whose index is in the set
LastOf(messages, indices) == messages[CHOOSE i \in indices : \A k \in indices : k <= i].id

\* C25: findReplyTarget(content, messages) returns no target exactly when the list has
\* no message that is not AI-authored; otherwise, for a content that holds "@ai" in any
\* case, the most recent message that is not AI-authored; for any other content the most
\* recent message that is not AI-authored and holds "?" or, in any case, one of how,
\* what, why, when, where, can you, could you, help, and when no message is such, the
\* most recent message that is not AI-authored.
C25_FindReplyTarget ==
    replyCall.called =>
        LET messages == replyCall.messages
            nonAI == {i \in 1..Len(messages) : ~messages[i].isAI}
            asking == {i \in nonAI : LooksLikeQuestion(messages[i].content)}
        IN  /\ (replyCall.target = NoId) <=> (nonAI = {})
            /\ nonAI # {} =>
                   replyCall.target =
                       IF HoldsAtAI(replyCall.content) THEN LastOf(messages, nonAI)
                       ELSE IF asking # {} THEN LastOf(messages, asking)
                       ELSE LastOf(messages, nonAI)

\* a content without a mention, and a list whose last message is an AI-authored
\* question, whose last message of a participant is no question, and with an earlier
\* question of a participant: the earlier question is the target
C25_Witness ==
    /\ replyCall.called
    /\ ~HoldsAtAI(replyCall.content)
    /\ Len(replyCall.messages) = 3
    /\ replyCall.messages[3].isAI /\ LooksLikeQuestion(replyCall.messages[3].content)
    /\ ~replyCall.messages[2].isAI /\ ~LooksLikeQuestion(replyCall.messages[2].content)
    /\ ~replyCall.messages[1].isAI /\ LooksLikeQuestion(replyCall.messages[1].content)
    /\ replyCall.target = replyCall.messages[1].id

\* the reply context of the row is a string that cannot be decoded
UndecodableRow(m) == m.replyingTo = Undecodable

\* C26: the handling of a message event, and the answer of a participants or settings
\* reload that failed, leave the current room current, the three channels and the
\* presence interval subscribed and the connection up; a message event of the current
\* room whose message the list does not hold appends the message, without replyingTo
\* when the reply context cannot be decoded, whatever failed before.
C26_FailuresAreContained ==
    [][(\/ MessageEvent
        \/ ParticipantsReloadSteps({FALSE})
        \/ SettingsReloadSteps({FALSE})) =>
           /\ currentRoom'.id = currentRoom.id
           /\ subscriptionVars' = subscriptionVars
           /\ isConnected' = isConnected
           /\ (/\ MessageEvent
               /\ currentRoom # NoRoom
               /\ currentRoom.id = messagesChannelRef
               /\ CountId(currentRoom.messages, Head(msgEvents).id) = 0) =>
                  currentRoom'.messages =
                      Append(currentRoom.messages,
                             IF UndecodableRow(Head(msgEvents))
                             THEN [Head(msgEvents) EXCEPT !.replyingTo = NoReply]
                             ELSE Head(msgEvents))]_vars

\* the list holds the message whose reply context could not be decoded, without
\* replyingTo, and after it the message of a later event; a reload has failed
C26_Witness ==
    /\ currentRoom # NoRoom
    /\ messagesChannelRef = currentRoom.id
    /\ currentRoom.participants = {}
    /\ \E i \in 1..Len(currentRoom.messages) :
           /\ currentRoom.messages[i].replyingTo = NoReply
           /\ \E k \in 1..Len(dbMessages[currentRoom.id]) :
                  /\ dbMessages[currentRoom.id][k].id = currentRoom.messages[i].id
                  /\ UndecodableRow(dbMessages[currentRoom.id][k])
           /\ \E n \in (i + 1)..Len(currentRoom.messages) :
                  ~IsTempId(currentRoom.messages[n].id)

\* C27: while a room is current and subscribed and no message event is in flight, the
\* local list holds every message the messages table holds for the room: none of those
\* persisted since the initial load of joinRoom is missing.
C27_NoMessageMissed ==
    (/\ currentRoom # NoRoom
     /\ messagesChannelRef = currentRoom.id
     /\ msgEvents = << >>) =>
        \A k \in 1..Len(dbMessages[currentRoom.id]) :
            CountId(currentRoom.messages, dbMessages[currentRoom.id][k].id) >= 1

\* the default settings of a room: AI not muted, nobody named as the one who muted
DefaultSettings(roomId) == [roomId |-> roomId, isAIMuted |-> FALSE, aiMutedBy |-> "undefined"]

\* C28: when a settings reload of the current room answers with a failure, the local
\* settings become the default, AI not muted and without the one who muted, whatever
\* the stored row says; a settings load of joinRoom that fails gives the joined room
\* the default likewise; a sendMessage that mentions the AI while the local settings
\* are the default is taken as not muted, and its reconciliation starts an AI turn.
C28_FailedReloadUnmutes ==
    [][/\ (/\ SettingsReloadSteps({FALSE})
           /\ currentRoom # NoRoom
           /\ \E q \in reloads \ reloads' : q.room = currentRoom.id) =>
              currentRoom'.settings = DefaultSettings(currentRoom.id)
       /\ \A j \in JoinIds :
              /\ JoinLoadSettings(j, FALSE) =>
                     (~joins'[j].muted /\ joins'[j].mutedBy = "undefined")
              /\ (JoinPublish(j) /\ joins[j].mutedBy = "undefined") =>
                     currentRoom'.settings = DefaultSettings(joins[j].room)
       /\ \A s \in SendIds :
              /\ (/\ sends[s].pc = "idle" /\ sends'[s].pc = "inserting"
                  /\ currentRoom.settings = DefaultSettings(currentRoom.id)) =>
                     ~sends'[s].muted
              /\ (/\ sends[s].pc = "inserted" /\ sends'[s].pc # "inserted"
                  /\ ~sends[s].muted /\ MentionsAI(sends[s].content)) =>
                     (sends'[s].pc = "aiDelay" /\ isAIResponding')]_vars

\* the stored row has said muted all along, the settings load of joinRoom failed and
\* left the default, and a mention sent in the room afterwards has started an AI turn
C28_Witness ==
    /\ currentRoom # NoRoom
    /\ dbSettings[currentRoom.id].is_ai_muted
    /\ Len(toggles) = 0
    /\ currentRoom.settings = DefaultSettings(currentRoom.id)
    /\ \E s \in SendIds :
           /\ sends[s].pc = "aiDelay"
           /\ sends[s].room = currentRoom.id
           /\ MentionsAI(sends[s].content)

\* C29: once no settings change event is waiting and no settings reload is in flight,
\* the local isAIMuted of the current room is the stored mute state of the room.
C29_LastWriteWins ==
    (/\ currentRoom # NoRoom
     /\ settingsChannelRef = currentRoom.id
     /\ settingsEvents = 0
     /\ \A q \in reloads : q.kind # "settings") =>
        currentRoom.settings.isAIMuted = dbSettings[currentRoom.id].is_ai_muted

\* the current room is not the room a handler was registered for
NotCurrent(roomId) == currentRoom = NoRoom \/ currentRoom.id # roomId

\* the step leaves the client's room state as it is
RoomKept == currentRoom' = currentRoom /\ currentRoomRef' = currentRoomRef

\* C30: the answer of a participants reload (started by the message handler, the
\* participants handler or the presence interval of a room) or of a settings reload
\* that was started for a room that is not the current room, no room being current
\* included, leaves the current room (its messages, its participants, its settings)
\* and its ref as they are.
C30_LateHandlersKeepRoom ==
    [][\A q \in reloads :
           (/\ q \notin reloads'
            /\ ParticipantsReloadSteps(BOOLEAN) \/ SettingsReloadSteps(BOOLEAN)
            /\ NotCurrent(q.room)) => RoomKept]_vars

\* the user is in one room while the answer of a participants reload started for
\* another room is on its way, with a participant set the current room does not show
C30_Witness ==
    /\ currentRoom # NoRoom
    /\ \E q \in reloads :
           /\ q.kind = "participants"
           /\ q.room # currentRoom.id
           /\ currentRoom.participants \notin q.participants
====
